---------------------------- MODULE Spec2Model ----------------------------
(***************************************************************************)
(* Verification model of the Codedx automation core                        *)
(* (src/automation/index.js and the modules under src/automation/modules). *)
(*                                                                         *)
(* One state space, several specifications: each component has its own     *)
(* initial condition and next-state relation, and leaves the variables of  *)
(* the other components unchanged.                                         *)
(*   SpecNotif  - NotificationService: rate limiter, fan-out, history      *)
(*   SpecSched  - AutomationSystem: cron callbacks and manual runs; the    *)
(*                clock stands still, every alert falls in one rate window *)
(*   SpecStore  - the store functions with several calls in flight         *)
(*   SpecDeploy - DeploymentAutomation.deploy, stage by stage              *)
(*   SpecEngage - UserEngagement.sendEngagementNotification                *)
(*   SpecAlert  - the channel selection of sendAlert                       *)
(*   SpecShutdown - the scheduler with shutdown, handlers that succeed     *)
(*   SpecManual - runManualTask, each call run to its end                  *)
(*   SpecHealthStatus - one aggregation of the health sub-checks           *)
(*   SpecHealth - checkHealth runs with the alert cooldown and a clock     *)
(*   SpecCleanup - performCleanup over a small file system                 *)
(*   SpecBackup - performBackup calls in flight and the statistics         *)
(*   SpecRestore - a backup followed by restoreBackup                      *)
(*   SpecReport - ReportGenerator.generateReport, each call run to its end *)
(*   SpecRollback - DeploymentAutomation.rollback over stored deployments  *)
(*   SpecNames - the staging directories of performBackup runs             *)
(*   SpecTrack - UserEngagement.trackUserActivity and the engagement rules *)
(*   SpecWindow - HealthMonitor.healthHistory and the stored report files  *)
(*   SpecDeployHistory - the deployment history over many calls, restarts  *)
(***************************************************************************)
EXTENDS Integers, Naturals, Sequences, FiniteSets, TLC

VARIABLES
  now,                  \* Date.now(), in milliseconds since construction
  ticks,                \* number of clock advances taken so far
  isInitialized,        \* NotificationService.isInitialized
  channels,             \* NotificationService.channels (names of the configured channels)
  rateLimits,           \* NotificationService.rateLimits: channel -> [count, resetTime]
  history,              \* per record type: the module's in-memory history array
  dayFile,              \* per record type: the records in today's <type>-YYYY-MM-DD.json
  nextId,               \* source of fresh notification ids
  lastCall,             \* outcome of the most recent sendNotification call
  attempts,             \* per channel: delivery attempts since the channel's window began
  transportDown,        \* the configured channels whose transport rejects every delivery
  scheduledTasks,       \* AutomationSystem.scheduledTasks: job name -> index of its cron job
  cronJobs,             \* every cron job created by cron.schedule: [name, active]
  isRunning,            \* AutomationSystem.isRunning
  schedRunning,         \* per job: cron callbacks whose handler is in flight
  manualRunning,        \* per task: runManualTask calls whose handler is in flight
  lastManual,           \* how the most recent runManualTask call ended
  rejection,            \* fate of a rejected cron-callback promise
  processState,         \* "running", or "exit1" after process.exit(1)
  writers,              \* per writer: a store operation in flight [pc, type, rec, buffer]
  nextRec,              \* source of fresh record ids for the store operations
  stored,               \* <<type, id>> of every store operation that returned without a file error
  depInitialized,       \* DeploymentAutomation.isInitialized
  currentBranch,        \* DeploymentAutomation.currentBranch.current
  dep,                  \* the deployment object of the most recent deploy call
  nextDeployId,         \* source of fresh deployment ids
  eng,                  \* the notification object of the most recent sendEngagementNotification call
  engagementHistory,    \* UserEngagement.engagementHistory
  nextEngId,            \* source of fresh engagement notification ids
  alertCall,            \* the options of a sendAlert call and the channel list it builds
  shutdownCall,         \* what AutomationSystem.shutdown left behind when it returned
  manualCall,           \* the most recent runManualTask call run to its end
  healthCall,           \* sub-check outcomes and overall status of one aggregation
  health,               \* HealthMonitor: clock, lastAlert and the latest report
  fsFiles,              \* the files present in the directories the cleanup rules name
  cleanupCall,          \* the most recent performCleanup call run to its end
  backupStats,          \* DatabaseBackup.backupStats
  backupRuns,           \* per performBackup call: its position and what it met
  lastBackup,           \* DatabaseBackup.lastBackup
  restoreCall,          \* the most recent backup-then-restore run to its end
  reportCall,           \* the most recent generateReport call run to its end
  rollbackCall,         \* the most recent rollback call run to its end
  backupClock,          \* Date.now() as performBackup reads it, in milliseconds
  stagingDirs,          \* per performBackup call: the backupName it derived
  trackCall,            \* the most recent trackUserActivity call run to its end
  healthStore           \* HealthMonitor.healthHistory and the health-*.json files

notifVars == <<isInitialized, channels, rateLimits, nextId, lastCall, attempts, transportDown>>
storeVars == <<history, dayFile>>
clockVars == <<now, ticks>>
schedVars == <<scheduledTasks, cronJobs, isRunning, schedRunning, manualRunning,
               lastManual, rejection, processState>>
writerVars == <<writers, nextRec, stored>>
deployVars == <<depInitialized, currentBranch, dep, nextDeployId>>
engageVars == <<eng, engagementHistory, nextEngId>>
alertVars == <<alertCall>>
shutdownVars == <<shutdownCall>>
manualVars == <<manualCall>>
healthVars == <<healthCall, health>>
cleanupVars == <<fsFiles, cleanupCall>>
backupVars == <<backupStats, backupRuns, lastBackup, restoreCall>>
reportVars == <<reportCall>>
rollbackVars == <<rollbackCall>>
nameVars == <<backupClock, stagingDirs>>
trackVars == <<trackCall>>
windowVars == <<healthStore>>
\* the variables of the modules that run on their own
moduleVars == <<engageVars, alertVars, shutdownVars, manualVars, healthVars, cleanupVars,
                backupVars, reportVars, rollbackVars, nameVars, trackVars,
                   windowVars>>
coreVars == <<notifVars, storeVars, clockVars, schedVars, writerVars, deployVars>>
coreVarsBesidesSched == <<notifVars, storeVars, clockVars, writerVars, deployVars>>
besidesEngage == <<coreVars, alertVars, shutdownVars, manualVars, healthVars, cleanupVars,
                   backupVars, reportVars, rollbackVars, nameVars, trackVars,
                   windowVars>>
besidesAlert == <<coreVars, engageVars, shutdownVars, manualVars, healthVars, cleanupVars,
                   backupVars, reportVars, rollbackVars, nameVars, trackVars,
                   windowVars>>
besidesManual == <<engageVars, alertVars, shutdownVars, healthVars, cleanupVars,
                   backupVars, reportVars, rollbackVars, nameVars, trackVars,
                   windowVars>>
besidesHealth == <<coreVars, engageVars, alertVars, shutdownVars, manualVars, cleanupVars,
                   backupVars, reportVars, rollbackVars, nameVars, trackVars,
                   windowVars>>
besidesCleanup == <<engageVars, alertVars, shutdownVars, manualVars, healthVars, backupVars,
                    reportVars, rollbackVars, nameVars, trackVars,
                   windowVars>>
besidesBackup == <<coreVars, engageVars, alertVars, shutdownVars, manualVars, healthVars,
                   cleanupVars, reportVars, rollbackVars, nameVars, trackVars,
                   windowVars>>
besidesReport == <<engageVars, alertVars, shutdownVars, manualVars, healthVars, cleanupVars,
                   backupVars, rollbackVars, nameVars, trackVars,
                   windowVars>>
besidesRollback == <<engageVars, alertVars, shutdownVars, manualVars, healthVars, cleanupVars,
                     backupVars, reportVars, nameVars, trackVars,
                   windowVars>>
besidesNames == <<coreVars, engageVars, alertVars, shutdownVars, manualVars, healthVars,
                  cleanupVars, backupVars, reportVars, rollbackVars, trackVars, windowVars>>
besidesTrack == <<coreVars, engageVars, alertVars, shutdownVars, manualVars, healthVars,
                  cleanupVars, backupVars, reportVars, rollbackVars, nameVars, windowVars>>
besidesWindow == <<coreVars, engageVars, alertVars, shutdownVars, manualVars, healthVars,
                   cleanupVars, backupVars, reportVars, rollbackVars, nameVars, trackVars>>
vars == <<now, ticks, isInitialized, channels, rateLimits, history, dayFile,
          nextId, lastCall, attempts, transportDown,
          scheduledTasks, cronJobs, isRunning, schedRunning, manualRunning,
          lastManual, rejection, processState,
          writers, nextRec, stored, depInitialized, currentBranch, dep, nextDeployId,
          eng, engagementHistory, nextEngId, alertCall, shutdownCall, manualCall,
          healthCall, health, fsFiles, cleanupCall,
          backupStats, backupRuns, lastBackup, restoreCall, reportCall, rollbackCall,
          backupClock, stagingDirs, trackCall, healthStore>>

----------------------------------------------------------------------------
(* Bounds *)
MaxTicks == 1
MaxSends == 6
MaxStarts == 2
MaxRunning == 2
MaxWriters == 2
MaxRecords == 3
MaxDeploys == 2
MaxEngage == 3
MaxManual == 3
MaxChecks == 2
MaxHealthTicks == 2
MaxFiles == 5
MaxCleanups == 2
MaxBackups == 2
MaxDocs == 2
MaxBackupSpan == 3000
MaxHealthRuns == 101
MaxStoredDeploys == 102

----------------------------------------------------------------------------
(* NotificationService: constants of the constructor *)
RateLimitedChannels == {"email", "slack", "discord", "telegram"}

EmailLimit == 10
SlackLimit == 20
DiscordLimit == 20
TelegramLimit == 30
RateWindow == 60000

(* Persistence: the record types with a day-partitioned file, and the size *)
(* of each module's in-memory history                                       *)
RecordTypes == {"notification", "deployment", "cleanup", "report"}

NotificationHistoryCap == 1000
DeploymentHistoryCap == 100
CleanupHistoryCap == 50
ReportHistoryCap == 100

HistoryCap(type) ==
  CASE type = "notification" -> NotificationHistoryCap
    [] type = "deployment" -> DeploymentHistoryCap
    [] type = "cleanup" -> CleanupHistoryCap
    [] type = "report" -> ReportHistoryCap

notificationHistory == history["notification"]
deploymentHistory == history["deployment"]
cleanupHistory == history["cleanup"]
reportHistory == history["report"]

Limit(ch) ==
  CASE ch = "email" -> EmailLimit
    [] ch = "slack" -> SlackLimit
    [] ch = "discord" -> DiscordLimit
    [] ch = "telegram" -> TelegramLimit

Window(ch) == RateWindow

\* environments the service is configured from (configureChannels)
ConfigChoices == { {"email", "slack"}, {"email"} }

\* the mail server or the chat API may be unreachable while the service runs
DownChoices == { {}, {"email"}, {"slack"} }

\* channel lists a caller passes to sendNotification
ChannelLists == { <<"email">>, <<"email", "slack">>, <<"slack", "email">> }

Severities == {"medium", "high", "critical"}

NoCall == [kind |-> "none"]

----------------------------------------------------------------------------
\* checkRateLimit with the limit test off by one (count > limit)
checkRateLimit_offByOne(rl, ch, t) ==
  IF ch \notin DOMAIN rl
  THEN [ok |-> TRUE, rl |-> rl, reset |-> FALSE]
  ELSE LET expired == t > rl[ch].resetTime
           afterReset == IF expired
                         THEN [count |-> 0, resetTime |-> t + Window(ch)]
                         ELSE rl[ch]
       IN IF afterReset.count > Limit(ch)
          THEN [ok |-> FALSE, rl |-> [rl EXCEPT ![ch] = afterReset], reset |-> expired]
          ELSE [ok |-> TRUE,
                rl |-> [rl EXCEPT ![ch] = [afterReset EXCEPT !.count = @ + 1]],
                reset |-> expired]

(* checkRateLimit(channel): the effect on rateLimits and whether it throws *)
checkRateLimit(rl, ch, t) ==
  IF ch \notin DOMAIN rl
  THEN [ok |-> TRUE, rl |-> rl, reset |-> FALSE]
  ELSE LET expired == t > rl[ch].resetTime
           afterReset == IF expired
                         THEN [count |-> 0, resetTime |-> t + Window(ch)]
                         ELSE rl[ch]
       IN IF afterReset.count >= Limit(ch)
          THEN [ok |-> FALSE, rl |-> [rl EXCEPT ![ch] = afterReset], reset |-> expired]
          ELSE [ok |-> TRUE,
                rl |-> [rl EXCEPT ![ch] = [afterReset EXCEPT !.count = @ + 1]],
                reset |-> expired]

\* attempts of a channel restart from zero when checkRateLimit opens a new window
AfterCheck(att, ch, r) ==
  IF r.reset /\ ch \in DOMAIN att THEN [att EXCEPT ![ch] = 0] ELSE att

(* checkRateLimits(channels): sequential, stops at the first channel that throws *)
RECURSIVE checkRateLimits(_, _, _, _, _)
checkRateLimits(rl, att, chans, i, t) ==
  IF i > Len(chans)
  THEN [ok |-> TRUE, rl |-> rl, att |-> att, failed |-> "none"]
  ELSE LET r == checkRateLimit(rl, chans[i], t)
       IN IF r.ok
          THEN checkRateLimits(r.rl, AfterCheck(att, chans[i], r), chans, i + 1, t)
          ELSE [ok |-> FALSE, rl |-> r.rl, att |-> AfterCheck(att, chans[i], r),
                failed |-> chans[i]]

(* channels.map(sendToChannel): the synchronous part of every sendToChannel  *)
(* runs in list order; deliv is the set of channels whose transport fails    *)
RECURSIVE dispatch(_, _, _, _, _, _, _, _)
dispatch(rl, att, conf, chans, i, t, deliv, acc) ==
  IF i > Len(chans)
  THEN [rl |-> rl, att |-> att, results |-> acc]
  ELSE LET ch == chans[i]
       IN IF ch \notin conf
          THEN dispatch(rl, att, conf, chans, i + 1, t, deliv,
                        Append(acc, [channel |-> ch, status |-> "rejected",
                                     error |-> "NotConfigured", attempted |-> FALSE]))
          ELSE LET r == checkRateLimit(rl, ch, t)
                   att1 == AfterCheck(att, ch, r)
               IN IF ~r.ok
                  THEN dispatch(r.rl, att1, conf, chans, i + 1, t, deliv,
                                Append(acc, [channel |-> ch, status |-> "rejected",
                                             error |-> "RateLimited", attempted |-> FALSE]))
                  ELSE dispatch(r.rl, [att1 EXCEPT ![ch] = @ + 1], conf, chans, i + 1, t, deliv,
                                Append(acc,
                                  IF ch \notin deliv
                                  THEN [channel |-> ch, status |-> "fulfilled",
                                        error |-> "null", attempted |-> TRUE]
                                  ELSE [channel |-> ch, status |-> "rejected",
                                        error |-> "DeliveryError", attempted |-> TRUE]))

CountStatus(results, s) == Cardinality({i \in 1..Len(results) : results[i].status = s})

OverallStatus(results, n) ==
  LET failed == CountStatus(results, "rejected")
  IN IF failed = 0 THEN "sent" ELSE IF failed = n THEN "failed" ELSE "partial"

(* storeNotification, storeDeployment, storeCleanupRecord, storeReportRecord *)
(* run without another writer in between: bounded in-memory history, then   *)
(* read-append-write of the day file; a file-system error is logged and     *)
(* swallowed                                                                 *)
PushCapped(hist, rec, cap) ==
  LET h == Append(hist, rec) IN IF Len(h) > cap THEN Tail(h) ELSE h

storeRecord(type, hist, file, rec, fsOk) ==
  [hist |-> PushCapped(hist, rec, HistoryCap(type)),
   file |-> IF fsOk THEN Append(file, rec) ELSE file]

\* variant: a notification that failed is not recorded
storeNotification_skipFailed(hist, file, rec, fsOk) ==
  IF rec.status = "failed" THEN [hist |-> hist, file |-> file]
  ELSE storeRecord("notification", hist, file, rec, fsOk)

storeNotification(hist, file, rec, fsOk) == storeRecord("notification", hist, file, rec, fsOk)

ChanSet(chans) == {chans[i] : i \in 1..Len(chans)}

\* the channels of a call that have used up their window when the call begins
AtLimit(rl, chans, t) ==
  {ch \in ChanSet(chans) \cap DOMAIN rl :
     ~(t > rl[ch].resetTime) /\ rl[ch].count >= Limit(ch)}

(* sendNotification(options): the whole call, as a function of the state.  *)
(* via/severity/title are the caller's options; they do not influence the   *)
(* result                                                                    *)
sendNotification(rl, att, conf, hist, file, id, chans, t, deliv, fsOk, via, severity, title) ==
  LET pre == checkRateLimits(rl, att, chans, 1, t)
      base == [kind |-> "send", via |-> via, severity |-> severity, title |-> title,
               id |-> id,
               channels |-> chans, atLimit |-> AtLimit(rl, chans, t),
               transportFailed |-> deliv]
  IN IF ~pre.ok
     THEN LET rec == [id |-> id, status |-> "failed"]
              st == storeNotification(hist, file, rec, fsOk)
          IN [rl |-> pre.rl, att |-> pre.att, hist |-> st.hist, file |-> st.file,
              call |-> base @@ [thrown |-> TRUE, error |-> "RateLimited",
                                errorChannel |-> pre.failed,
                                status |-> "failed", results |-> <<>>]]
     ELSE LET d == dispatch(pre.rl, pre.att, conf, chans, 1, t, deliv, <<>>)
              status == OverallStatus(d.results, Len(chans))
              rec == [id |-> id, status |-> status]
              st == storeNotification(hist, file, rec, fsOk)
          IN [rl |-> d.rl, att |-> d.att, hist |-> st.hist, file |-> st.file,
              call |-> base @@ [thrown |-> FALSE, error |-> "null",
                                errorChannel |-> "none",
                                status |-> status, results |-> d.results]]

\* variant: only severity 'high' adds the secondary channels
AlertChannels_highOnly(conf, severity) ==
  <<"email">> \o
  (IF severity = "high"
   THEN (IF "slack" \in conf THEN <<"slack">> ELSE <<>>) \o
        (IF "telegram" \in conf THEN <<"telegram">> ELSE <<>>) \o
        (IF "discord" \in conf THEN <<"discord">> ELSE <<>>)
   ELSE <<>>)

(* sendAlert(options): channel selection by severity *)
AlertChannels(conf, severity) ==
  <<"email">> \o
  (IF severity \in {"high", "critical"}
   THEN (IF "slack" \in conf THEN <<"slack">> ELSE <<>>) \o
        (IF "telegram" \in conf THEN <<"telegram">> ELSE <<>>) \o
        (IF "discord" \in conf THEN <<"discord">> ELSE <<>>)
   ELSE <<>>)

----------------------------------------------------------------------------
(* AutomationSystem: the job catalogue of startScheduledTasks and the task  *)
(* names of runManualTask                                                    *)
Catalogue == <<"database-backup", "health-monitor", "user-engagement",
               "cleanup", "weekly-reports", "content-updates">>
JobNames == {Catalogue[i] : i \in 1..Len(Catalogue)}

TaskNames == {"backup", "health-check", "deploy", "notify", "cleanup", "report",
              "content-update", "user-engagement"}

\* the module entry point a scheduled job's handler ends up in
JobEntry(j) ==
  CASE j = "database-backup" -> "databaseBackup.performBackup"
    [] j = "health-monitor" -> "healthMonitor.checkHealth"
    [] j = "user-engagement" -> "userEngagement.sendDailyNotifications"
    [] j = "cleanup" -> "cleanupService.performCleanup"
    [] j = "weekly-reports" -> "reportGenerator.generateReport"
    [] j = "content-updates" -> "contentAutomation.checkForUpdates"

\* the module entry point of a manual task
TaskEntry(t) ==
  CASE t = "backup" -> "databaseBackup.performBackup"
    [] t = "health-check" -> "healthMonitor.checkHealth"
    [] t = "deploy" -> "deploymentAutomation.deploy"
    [] t = "notify" -> "notificationService.sendNotification"
    [] t = "cleanup" -> "cleanupService.performCleanup"
    [] t = "report" -> "reportGenerator.generateReport"
    [] t = "content-update" -> "contentAutomation.updateContent"
    [] t = "user-engagement" -> "userEngagement.sendNotifications"

\* the triggers that come due, and the tasks a caller runs by hand, during the
\* period the scheduler is observed
DueJobs == {"database-backup", "health-monitor"}
ManualInputs == {"backup", "deploy"}

FailureAlertSeverity_medium == "medium"

\* severity of the alert the cron callback sends when the handler throws
FailureAlertSeverity == "high"

----------------------------------------------------------------------------
(* The store operations as concurrent writers: each await of the function   *)
(* is a point where another writer may run                                   *)
Writers == 1..MaxWriters

NoRecord == [id |-> 0, status |-> "none"]

IdleWriter == [pc |-> "idle", type |-> "none", rec |-> NoRecord, buffer |-> <<>>]

----------------------------------------------------------------------------
(* DeploymentAutomation: deploymentConfig of the constructor and the inputs *)
(* of deploy                                                                 *)
Environments == {"development", "staging", "production"}

RequiredBranch(environment) ==
  CASE environment = "development" -> "develop"
    [] environment = "staging" -> "staging"
    [] environment = "production" -> "main"
    [] OTHER -> "null"

Platforms == {"vercel", "aws", "netlify"}

\* the branch git reports at initialize
Branches == {"main", "develop"}

\* the options a caller passes to deploy
EnvironmentInputs == {"staging", "production", "preview"}
PlatformInputs == {"vercel", "aws", "netlify", "heroku"}

\* what fs finds of package.json
PackageStates == {"ok", "missing", "nobuild"}

\* what the probe of the environment's domain gives
ProbeResults == {"none", "200", "non200", "error"}

NoDeployment ==
  [pc |-> "none", id |-> 0, environment |-> "null", platform |-> "null",
   force |-> FALSE, skipTests |-> FALSE, branch |-> "null", dirty |-> "unknown",
   status |-> "none", error |-> "null", buildLog |-> <<>>, deployLog |-> <<>>]

\* options.force of an options object that may lack the key
OptionForce(options) == IF "force" \in DOMAIN options THEN options.force ELSE FALSE

(* preDeploymentChecks(deployment, options): dirty and pkg are what git      *)
(* status and fs report; error is the error thrown, "null" when it returns   *)
preDeploymentChecks(deployment, options, branch, dirty, pkg) ==
  LET log0 == Append(deployment.buildLog, "Running pre-deployment checks...")
      required == RequiredBranch(deployment.environment)
      log1 == IF dirty THEN Append(log0, "Warning: Deploying with uncommitted changes")
                       ELSE log0
      seen == IF dirty THEN "dirty" ELSE "clean"
  IN IF required # "null" /\ branch # required
     THEN [buildLog |-> log0, dirty |-> "unknown", error |-> "BranchMismatch"]
     ELSE IF dirty /\ ~OptionForce(options)
     THEN [buildLog |-> log0, dirty |-> seen, error |-> "DirtyWorkingTree"]
     ELSE IF pkg = "missing"
     THEN [buildLog |-> log1, dirty |-> seen, error |-> "PackageJsonMissing"]
     ELSE IF pkg = "nobuild"
     THEN [buildLog |-> log1, dirty |-> seen, error |-> "NoBuildScript"]
     ELSE [buildLog |-> Append(log1, "Pre-deployment checks passed"),
           dirty |-> seen, error |-> "null"]

----------------------------------------------------------------------------
(* UserEngagement: the notification object of sendEngagementNotification    *)
EngagementHistoryCap == 1000

NoEngagement == [pc |-> "none", id |-> 0, status |-> "none", error |-> "null"]

\* the history array holds the notification object itself: a later change of
\* its status shows in every entry that refers to it
Retag(hist, id, status) ==
  [i \in DOMAIN hist |-> IF hist[i].id = id THEN [hist[i] EXCEPT !.status = status]
                                             ELSE hist[i]]

----------------------------------------------------------------------------
(* sendAlert as a function of the configured channels and the severity      *)
ChannelNames == {"email", "slack", "telegram", "discord"}
SecondaryChannels == {"slack", "telegram", "discord"}

\* severities a caller passes to sendAlert
AlertSeverities == {"low", "medium", "high", "critical", "urgent"}

NoAlertCall == [done |-> FALSE, conf |-> {}, severity |-> "none", channels |-> <<>>]

----------------------------------------------------------------------------
(* AutomationSystem.shutdown: handlers in flight and triggers still active  *)
(* at the moment it returned                                                 *)
NoShutdown == [returned |-> FALSE, inFlight |-> 0, live |-> 0]

----------------------------------------------------------------------------
(* runManualTask run to its end: what the module behind each task stores    *)
NoManualCall == [n |-> 0, task |-> "none", known |-> FALSE, ok |-> FALSE,
                 thrown |-> FALSE, stored |-> "none"]

\* task names a caller passes: the eight of the switch and one outside it
ManualTaskInputs == TaskNames \cup {"restore"}

\* the record the module's entry point stores before it returns or throws:
\* deploy, sendNotification, performCleanup, generateReport and updateContent
\* store their record on both paths; checkHealth stores its report only when
\* it succeeds; performBackup keeps counters only; the user-engagement case
\* calls a method UserEngagement does not have
ManualStores(t, ok) ==
  CASE t = "deploy" -> "deployment"
    [] t = "notify" -> "notification"
    [] t = "cleanup" -> "cleanup"
    [] t = "report" -> "report"
    [] t = "content-update" -> "content-update"
    [] t = "health-check" -> IF ok THEN "health" ELSE "none"
    [] OTHER -> "none"

\* userEngagement.sendNotifications is not a function: the call always throws
HandlerCanSucceed(t) == t # "user-engagement"

----------------------------------------------------------------------------
(* HealthMonitor *)
AlertCooldown == 5 * 60 * 1000
CpuThreshold == 80
MemoryThreshold == 85
ResponseTimeThreshold == 2000
HealthEpoch == 1

CheckNames == {"system", "database", "application", "network", "disk", "memory"}

\* what each registered check can do when awaited: return a result with one
\* of these statuses, or throw; checkSystemHealth has no catch of its own,
\* the other five turn their errors into a result of status 'error'
CheckOutcomes(name) ==
  CASE name = "system" -> {"healthy", "throws"}
    [] name \in {"database", "application", "network"} ->
         {"healthy", "unhealthy", "error"}
    [] OTHER -> {"healthy", "warning", "error"}

CheckOutcomeMaps ==
  {f \in [CheckNames -> {"healthy", "warning", "unhealthy", "error", "throws"}] :
     \A n \in CheckNames : f[n] \in CheckOutcomes(n)}

\* the wrapper around each check: a throw becomes a result of status 'error'
checkResult(outcome) == IF outcome = "throws" THEN "error" ELSE outcome

determineOverallHealth_unhealthyFirst(checks) ==
  LET statuses == {checks[n] : n \in DOMAIN checks}
  IN IF "unhealthy" \in statuses THEN "unhealthy"
     ELSE IF "error" \in statuses THEN "error"
     ELSE IF "warning" \in statuses THEN "warning"
     ELSE "healthy"

determineOverallHealth(checks) ==
  LET statuses == {checks[n] : n \in DOMAIN checks}
  IN IF "error" \in statuses THEN "error"
     ELSE IF "unhealthy" \in statuses THEN "unhealthy"
     ELSE IF "warning" \in statuses THEN "warning"
     ELSE "healthy"

\* one run's inputs: every check's outcome and the measured values; the system
\* result carries cpu and memory usage when it returned, the application
\* result carries a response time when the probe got an answer
HealthInputs ==
  [outcome : CheckOutcomeMaps,
   cpu : {CpuThreshold, CpuThreshold + 1},
   memory : {MemoryThreshold, MemoryThreshold + 1},
   responseTime : {ResponseTimeThreshold, ResponseTimeThreshold + 1}]

\* the part of checkForAlerts after the cooldown test: the breaches found
alertCandidates(in) ==
  LET checks == [n \in CheckNames |-> checkResult(in.outcome[n])]
      sysMetrics == in.outcome["system"] = "healthy"
      appMetrics == in.outcome["application"] \in {"healthy", "unhealthy"}
  IN (IF sysMetrics /\ in.cpu > CpuThreshold THEN {"cpu"} ELSE {})
     \cup (IF sysMetrics /\ in.memory > MemoryThreshold THEN {"memory"} ELSE {})
     \cup (IF checks["database"] = "error" THEN {"database"} ELSE {})
     \cup (IF checks["application"] = "error" THEN {"application"} ELSE {})
     \cup (IF appMetrics /\ in.responseTime > ResponseTimeThreshold
           THEN {"responseTime"} ELSE {})

Breaches == {"cpu", "memory", "database", "application", "responseTime"}

checkForAlerts_noCooldown(candidates, lastAlert, nowMs) ==
  [alerts |-> candidates,
   lastAlert |-> IF candidates # {} THEN nowMs ELSE lastAlert]

\* lastAlert 0 stands for null
checkForAlerts(candidates, lastAlert, nowMs) ==
  IF lastAlert # 0 /\ (nowMs - lastAlert) < AlertCooldown
  THEN [alerts |-> {}, lastAlert |-> lastAlert]
  ELSE [alerts |-> candidates,
        lastAlert |-> IF candidates # {} THEN nowMs ELSE lastAlert]

\* what one run of the checks hands to the rest of checkHealth
HealthRuns ==
  {[database |-> checkResult(in.outcome["database"]),
    candidates |-> alertCandidates(in)] : in \in HealthInputs}

\* the checks of one run, each behind its wrapper, and their aggregation
HealthAggregations ==
  {[done |-> TRUE, outcome |-> outcome,
    checks |-> [n \in CheckNames |-> checkResult(outcome[n])],
    overall |-> determineOverallHealth([n \in CheckNames |-> checkResult(outcome[n])])] :
     outcome \in CheckOutcomeMaps}

NoHealthCall == [done |-> FALSE, outcome |-> [n \in CheckNames |-> "healthy"],
                 checks |-> [n \in CheckNames |-> "healthy"], overall |-> "healthy"]

\* of the latest report the state keeps the database check's status and the
\* alerts; raisedAt is, per breach, the timestamp of the latest stored report
\* that lists it (0: none)
InitHealth == [now |-> HealthEpoch, ticks |-> 0, n |-> 0, lastAlert |-> 0,
               database |-> "healthy", alerts |-> {},
               raisedAt |-> [b \in Breaches |-> 0]]

HealthSteps == {1, AlertCooldown - 1}

----------------------------------------------------------------------------
(* CleanupService *)
\* Date.now() as CleanupService reads it, in days; the modification times of
\* the files are given relative to it
CleanupEpoch == 400

CleanupRuleNames == <<"logs", "temp", "backups", "reports", "notifications", "deployments">>

\* this.cleanupRules; file names and patterns are sequences of characters
cleanupRules(name) ==
  CASE name = "logs" ->
         [enabled |-> TRUE, retention |-> 30,
        patterns |-> {<<"*", ".", "l", "o", "g">>,
                     <<"*", ".", "l", "o", "g", ".", "*">>},
        directories |-> <<"logs", "automation/logs">>]
  [] name = "temp" ->
       [enabled |-> TRUE, retention |-> 7,
        patterns |-> {<<"*", ".", "t", "m", "p">>,
                     <<"*", ".", "t", "e", "m", "p">>,
                     <<"t", "e", "m", "p", "_", "*">>},
        directories |-> <<"temp", "tmp", "automation/temp">>]
  [] name = "backups" ->
       [enabled |-> TRUE, retention |-> 90,
        patterns |-> {<<"b", "a", "c", "k", "u", "p", "_", "*">>,
                     <<"*", ".", "b", "a", "c", "k", "u", "p">>},
        directories |-> <<"backups", "automation/backups">>]
  [] name = "reports" ->
       [enabled |-> TRUE, retention |-> 180,
        patterns |-> {<<"r", "e", "p", "o", "r", "t", "_", "*">>,
                     <<"h", "e", "a", "l", "t", "h", "-", "*">>,
                     <<"d", "e", "p", "l", "o", "y", "m", "e", "n", "t", "-", "*">>},
        directories |-> <<"reports", "automation/reports">>]
  [] name = "notifications" ->
       [enabled |-> TRUE, retention |-> 365,
        patterns |-> {<<"n", "o", "t", "i", "f", "i", "c", "a", "t", "i", "o", "n", "-", "*">>},
        directories |-> <<"notifications", "automation/notifications">>]
  [] name = "deployments" ->
       [enabled |-> TRUE, retention |-> 365,
        patterns |-> {<<"d", "e", "p", "l", "o", "y", "m", "e", "n", "t", "-", "*">>},
        directories |-> <<"deployments", "automation/deployments">>]

IsCleanupRule(name) == \E i \in DOMAIN CleanupRuleNames : CleanupRuleNames[i] = name

\* the directories initialize creates next to the modules directory
EnsuredDirectories == {"logs", "temp", "backups", "reports", "notifications", "deployments"}

\* the files that can exist: name, directory, modification time in days, size
FileTable ==
  <<[name |-> <<"a", ".", "l", "o", "g">>, dir |-> "logs", mtime |-> CleanupEpoch - 31, size |-> 1],
    [name |-> <<"c", ".", "t", "x", "t">>, dir |-> "logs", mtime |-> CleanupEpoch - 40, size |-> 2],
    [name |-> <<"d", ".", "l", "o", "g", ".", "1">>, dir |-> "automation/logs", mtime |-> CleanupEpoch - 35, size |-> 4],
    [name |-> <<"t", "e", "m", "p", "_", "y">>, dir |-> "temp", mtime |-> CleanupEpoch - 8, size |-> 8],
    [name |-> <<"b", ".", "l", "o", "g">>, dir |-> "logs", mtime |-> CleanupEpoch - 30, size |-> 16],
    [name |-> <<"x", ".", "t", "m", "p">>, dir |-> "temp", mtime |-> CleanupEpoch - 1, size |-> 32]>>

FileIds == 1..(IF MaxFiles < Len(FileTable) THEN MaxFiles ELSE Len(FileTable))

\* new RegExp('^' + pattern with . escaped, * as .* and ? as . + '$').test
RECURSIVE GlobMatch(_, _)
GlobMatch(pat, name) ==
  IF pat = <<>> THEN name = <<>>
  ELSE IF Head(pat) = "*"
       THEN GlobMatch(Tail(pat), name) \/ (name # <<>> /\ GlobMatch(pat, Tail(name)))
  ELSE IF Head(pat) = "?"
       THEN name # <<>> /\ GlobMatch(Tail(pat), Tail(name))
  ELSE name # <<>> /\ Head(name) = Head(pat) /\ GlobMatch(Tail(pat), Tail(name))

matchesPattern_any(filename, patterns) == patterns # {}

matchesPattern(filename, patterns) == \E pat \in patterns : GlobMatch(pat, filename)

\* matchesPattern tabulated over the pattern lists of the rules and the files
MatchTable ==
  [ps \in {cleanupRules(CleanupRuleNames[i]).patterns : i \in DOMAIN CleanupRuleNames} |->
     {f \in FileIds : matchesPattern(FileTable[f].name, ps)}]

\* a readdir that throws is caught inside and yields no file
getFilesInDirectory(dir, patterns, present, unreadable) ==
  IF dir \in unreadable THEN {}
  ELSE {f \in present \cap MatchTable[patterns] : FileTable[f].dir = dir}

RECURSIVE SumSizes(_)
SumSizes(fs) ==
  IF fs = {} THEN 0
  ELSE LET f == CHOOSE x \in fs : TRUE IN FileTable[f].size + SumSizes(fs \ {f})

cleanupDirectory_ignoresDryRun(dir, rule, dryRun, present, clock, unreadable, undeletable) ==
  LET files == getFilesInDirectory(dir, rule.patterns, present, unreadable)
      cutoffDate == clock - rule.retention
      old == {f \in files : FileTable[f].mtime < cutoffDate}
      removed == old \ undeletable
  IN [filesFound |-> Cardinality(files), filesDeleted |-> Cardinality(removed),
      bytesFreed |-> SumSizes(removed), errors |-> old \cap undeletable,
      removed |-> removed, would |-> {}]

\* removed: the files fs.remove deleted; would: the files of the
\* '[DRY RUN] Would delete' log lines; errors: the files whose removal threw
cleanupDirectory(dir, rule, dryRun, present, clock, unreadable, undeletable) ==
  LET files == getFilesInDirectory(dir, rule.patterns, present, unreadable)
      cutoffDate == clock - rule.retention
      old == {f \in files : FileTable[f].mtime < cutoffDate}
      removed == IF dryRun THEN {} ELSE old \ undeletable
  IN [filesFound |-> Cardinality(files), filesDeleted |-> Cardinality(removed),
      bytesFreed |-> SumSizes(removed),
      errors |-> IF dryRun THEN {} ELSE old \cap undeletable,
      removed |-> removed, would |-> IF dryRun THEN old ELSE {}]

\* pathExists: the ensured directories and those holding a file
DirectoryExists(dir, present) ==
  dir \in EnsuredDirectories \/ \E f \in present : FileTable[f].dir = dir

NoRuleResult == [filesFound |-> 0, filesDeleted |-> 0, bytesFreed |-> 0, errors |-> {},
                 removed |-> {}, would |-> {}]

RECURSIVE cleanupRuleFrom(_, _, _, _, _, _, _, _)
cleanupRuleFrom(i, rule, dryRun, present, clock, unreadable, undeletable, result) ==
  IF i > Len(rule.directories) THEN result
  ELSE LET dir == rule.directories[i]
       IN IF ~DirectoryExists(dir, present)
          THEN cleanupRuleFrom(i + 1, rule, dryRun, present, clock, unreadable,
                               undeletable, result)
          ELSE LET d == cleanupDirectory(dir, rule, dryRun, present \ result.removed,
                                         clock, unreadable, undeletable)
               IN cleanupRuleFrom(i + 1, rule, dryRun, present, clock, unreadable, undeletable,
                                  [filesFound |-> result.filesFound + d.filesFound,
                                   filesDeleted |-> result.filesDeleted + d.filesDeleted,
                                   bytesFreed |-> result.bytesFreed + d.bytesFreed,
                                   errors |-> result.errors \cup d.errors,
                                   removed |-> result.removed \cup d.removed,
                                   would |-> result.would \cup d.would])

cleanupRule_dryFirstDirectory(rule, dryRun, present, clock, unreadable, undeletable) ==
  IF dryRun
  THEN cleanupRuleFrom(Len(rule.directories), rule, dryRun, present, clock, unreadable,
                       undeletable, NoRuleResult)
  ELSE cleanupRuleFrom(1, rule, dryRun, present, clock, unreadable, undeletable, NoRuleResult)

cleanupRule(rule, dryRun, present, clock, unreadable, undeletable) ==
  cleanupRuleFrom(1, rule, dryRun, present, clock, unreadable, undeletable, NoRuleResult)

\* the loop of performCleanup over the rule names from position i on;
\* acc.results maps the names processed so far to their results
RECURSIVE performCleanupFrom(_, _, _, _, _, _, _)
performCleanupFrom(i, rules, dryRun, clock, unreadable, undeletable, acc) ==
  IF i > Len(rules) THEN acc
  ELSE IF ~IsCleanupRule(rules[i]) \/ ~cleanupRules(rules[i]).enabled
       THEN performCleanupFrom(i + 1, rules, dryRun, clock, unreadable, undeletable, acc)
       ELSE LET r == cleanupRule(cleanupRules(rules[i]), dryRun, acc.present, clock,
                                 unreadable, undeletable)
            IN performCleanupFrom(i + 1, rules, dryRun, clock, unreadable, undeletable,
                 [present |-> acc.present \ r.removed,
                  results |-> [n \in DOMAIN acc.results \cup {rules[i]} |->
                                 IF n = rules[i] THEN r ELSE acc.results[n]],
                  errors |-> acc.errors])

\* cleanupRule catches every error of its directories, so the catch blocks of
\* performCleanup are not entered: errors stays empty and status 'completed'
performCleanup(rules, dryRun, present, clock, unreadable, undeletable) ==
  LET acc == performCleanupFrom(1, rules, dryRun, clock, unreadable, undeletable,
                                [present |-> present, results |-> <<>>, errors |-> {}])
  IN [present |-> acc.present, results |-> acc.results, errors |-> acc.errors,
      status |-> "completed"]

\* the rule lists callers pass: the default (every rule), and a list of one
\* rule after a name that is no rule
CleanupRuleLists ==
  {CleanupRuleNames, <<"archive", "logs">>}

CleanupDirs == {FileTable[f].dir : f \in FileIds}

\* what goes wrong during one run: nothing, the readdir of one directory
\* throws, or the removal of one file throws
CleanupFaults(present) ==
  {[unreadable |-> {}, undeletable |-> {}]}
  \cup {[unreadable |-> {d}, undeletable |-> {}] : d \in CleanupDirs}
  \cup {[unreadable |-> {}, undeletable |-> {f}] : f \in present}

NoCleanupCall == [n |-> 0, dryRun |-> FALSE, rules |-> <<>>,
                  unreadable |-> {}, undeletable |-> {},
                  results |-> <<>>, errors |-> {}, status |-> "none"]

----------------------------------------------------------------------------
(* DatabaseBackup *)
InitBackupStats == [totalBackups |-> 0, successfulBackups |-> 0, failedBackups |-> 0,
                    totalSize |-> 0]

BackupRunIds == 1..MaxBackups

\* pc: idle, stats (about to call updateBackupStats(archivePath, duration,
\* true)), size (inside it, awaiting getFileSize), write (awaiting writeJson),
\* failed (in the catch block), done (returned), thrown (rethrew)
NoBackupRun == [pc |-> "idle", size |-> 0, s3Ok |-> TRUE, driveOk |-> TRUE, readTotal |-> 0]

ArchiveSizes == {1, 2}

NoLastBackup == [name |-> 0, size |-> 0, cloudStorage |-> <<>>]

\* both targets have credentials: this.s3 and this.drive are set
CloudTargets == {"s3", "googleDrive"}

getCloudStorageStatus == [t \in CloudTargets |-> "configured"]

\* a database: collection name -> number of documents
CollectionNames == {"users", "notes", "sessions"}

Datasets ==
  UNION {[cs -> 0..MaxDocs] : cs \in SUBSET CollectionNames}

\* exportCollections writes one <name>.json per collection and createArchive
\* zips the directory: the archive holds every collection with its documents
exportCollections(db) == db

\* extractBackup: ensures the directory temp_restore and returns it; nothing
\* is extracted from the archive
extractBackup(archive) == <<>>

\* importCollections over the .json files of the extracted directory
importCollections(extracted, dropExisting, target) ==
  [c \in DOMAIN target \cup DOMAIN extracted |->
     IF c \in DOMAIN extracted
     THEN (IF dropExisting \/ c \notin DOMAIN target THEN 0 ELSE target[c]) + extracted[c]
     ELSE target[c]]

NoRestoreCall == [done |-> FALSE, source |-> <<>>, dropExisting |-> FALSE, target |-> <<>>]

----------------------------------------------------------------------------
(* ReportGenerator *)
ReportTypes == {"weekly", "monthly", "daily", "custom"}

\* this.reportTemplates[type]?.sections || []
reportTemplates(type) ==
  CASE type = "weekly" -> <<"system", "users", "performance", "errors">>
    [] type = "monthly" -> <<"analytics", "trends", "growth", "recommendations">>
    [] type = "daily" -> <<"health", "alerts", "performance">>
    [] OTHER -> <<>>

\* the cases of the switch in generateSection
SectionNames == {"system", "users", "performance", "errors", "analytics", "trends",
                 "growth", "health", "alerts", "recommendations"}

\* the sections whose generator calls a method the class does not define
\* (getThroughput, getErrorTrends, getCourseProgress, getUserGrowthTrend,
\* getUserGrowth, getSystemHealth, getTotalAlerts,
\* getPerformanceRecommendations): the call throws a TypeError
UndefinedGetterSections == SectionNames \ {"system", "users"}

\* generateSection(section, dateRange): "data" when the section object is
\* returned, "error" when the call throws (an unknown section name included)
generateSection(section) ==
  IF section \in SectionNames \ UndefinedGetterSections THEN "data" ELSE "error"

SeqSet(q) == {q[i] : i \in 1..Len(q)}

\* the loop over report.sections: report.data[section] is the section object
\* or the placeholder {error: message}
sectionData(sections) == [sec \in SeqSet(sections) |-> generateSection(sec)]

\* generateSummary(data, type): reads data.performance.responseTimes.average
\* and data.analytics.pageViews.total of whatever object the section holds;
\* on a placeholder responseTimes / pageViews is undefined and the read
\* throws a TypeError.  data.users.totalUsers never throws
generateSummary(data) ==
  IF \E sec \in {"performance", "analytics"} \cap DOMAIN data : data[sec] = "error"
  THEN "TypeError" ELSE "ok"

ReportFormats == {"json", "html", "pdf"}

\* formatReport(report, format)
formatReport(format) ==
  CASE format \in {"json", "html"} -> "ok"
    [] format = "pdf" -> "PdfNotImplemented"
    [] OTHER -> "UnsupportedFormat"

\* the section lists a caller passes; <<>> selects the template of the type
ReportSectionLists == {<<>>, <<"system", "users">>, <<"users", "performance">>,
                       <<"system", "inventory">>}

\* generateReport(options) run to its end: the report object that is stored
\* and returned (status completed) or stored and followed by a rethrow
generateReport(type, sections, format, saveOk) ==
  LET requested == IF Len(sections) > 0 THEN sections ELSE reportTemplates(type)
      data == sectionData(requested)
      summary == generateSummary(data)
      formatted == formatReport(format)
      error == IF summary # "ok" THEN summary
               ELSE IF formatted # "ok" THEN formatted
               ELSE IF ~saveOk THEN "WriteFailed"
               ELSE "null"
  IN [sections |-> requested, data |-> data,
      status |-> IF error = "null" THEN "completed" ELSE "failed",
      error |-> error, thrown |-> error # "null"]

NoReportCall == [done |-> FALSE, type |-> "weekly", format |-> "json",
                 report |-> [sections |-> <<>>, data |-> <<>>, status |-> "generating",
                             error |-> "null", thrown |-> FALSE]]

----------------------------------------------------------------------------
(* DeploymentAutomation.rollback *)
\* deploymentHistory.find(d => d.id === deploymentId)
findDeployment(hist, deploymentId) == {i \in 1..Len(hist) : hist[i].id = deploymentId}

\* variant: a known deployment is taken out of the history before the throw
rollback_removesRecord(hist, deploymentId) ==
  IF findDeployment(hist, deploymentId) = {}
  THEN [error |-> "NotFound", hist |-> hist]
  ELSE [error |-> "NotImplemented",
        hist |-> SelectSeq(hist, LAMBDA d : d.id # deploymentId)]

\* rollback(deploymentId): the error it throws and the history it leaves
rollback(hist, deploymentId) ==
  IF findDeployment(hist, deploymentId) = {}
  THEN [error |-> "NotFound", hist |-> hist]
  ELSE [error |-> "NotImplemented", hist |-> hist]

\* the ids a caller passes: those a record can carry and one beyond
RollbackIds == 1..(MaxRecords + 1)

NoRollbackCall == [done |-> FALSE, id |-> 0, error |-> "null"]

----------------------------------------------------------------------------
(* DatabaseBackup: the names a run derives from the clock *)
\* Date.now() when the first performBackup of the model can start
BackupEpoch == 1000

NotStarted == <<>>

\* moment().format('YYYY-MM-DD_HH-mm-ss'): the time cut to whole seconds
formatTimestamp(ms) == ms \div 1000

\* `codedx_backup_${timestamp}`
backupName(ms) == <<"codedx_backup", formatTimestamp(ms)>>

\* path.join(this.backupDir, backupName)
backupPath(name) == <<"backups">> \o name

\* path.join(this.backupDir, `${backupName}.zip`)
archivePath(name) == <<"backups">> \o name \o <<"zip">>

\* the clock advances within a second or by a whole second
BackupClockSteps == {250, 1000}

----------------------------------------------------------------------------
(* UserEngagement: the engagement rules and their triggers *)
\* a value of the event data or of a rule condition, with its JavaScript type
Num(n) == <<"number", n>>
Str(n) == <<"string", n>>

\* Object.entries(this.engagementRules), in insertion order
EngagementRuleOrder ==
  <<"welcome", "firstLesson", "streakReminder", "achievement", "weeklyProgress",
    "courseCompletion">>

NoConditions == <<>>

engagementRules(ruleName) ==
  CASE ruleName = "welcome" -> [trigger |-> "registration", conditions |-> NoConditions]
    [] ruleName = "firstLesson" ->
         [trigger |-> "lesson_completed", conditions |-> [lessonNumber |-> Num(1)]]
    [] ruleName = "streakReminder" ->
         [trigger |-> "daily_check", conditions |-> [daysInactive |-> Num(3)]]
    [] ruleName = "achievement" ->
         [trigger |-> "achievement_unlocked", conditions |-> NoConditions]
    [] ruleName = "weeklyProgress" ->
         [trigger |-> "weekly_summary", conditions |-> NoConditions]
    [] ruleName = "courseCompletion" ->
         [trigger |-> "course_completed", conditions |-> NoConditions]

\* variant: the conditions of a rule are not looked at
checkRuleConditions_ignored(rule, data) == TRUE

\* checkRuleConditions(rule, data): data[key] !== value for a key the data
\* lacks compares undefined with the value
checkRuleConditions(rule, data) ==
  \A key \in DOMAIN rule.conditions :
     key \in DOMAIN data /\ data[key] = rule.conditions[key]

\* the loop of checkEngagementTriggers from rule i on: the rules for which
\* sendEngagementNotification is called, in order.  A call that throws ends
\* the loop
RECURSIVE triggersFrom(_, _, _, _)
triggersFrom(i, activityType, data, sendOk) ==
  IF i > Len(EngagementRuleOrder) THEN <<>>
  ELSE LET ruleName == EngagementRuleOrder[i]
           rule == engagementRules(ruleName)
       IN IF rule.trigger = activityType /\ checkRuleConditions(rule, data)
          THEN IF sendOk
               THEN <<ruleName>> \o triggersFrom(i + 1, activityType, data, sendOk)
               ELSE <<ruleName>>
          ELSE triggersFrom(i + 1, activityType, data, sendOk)

\* checkEngagementTriggers(userId, activityType, data)
checkEngagementTriggers(userExists, activityType, data, sendOk) ==
  IF ~userExists THEN <<>> ELSE triggersFrom(1, activityType, data, sendOk)

\* the activity types a caller passes: the six triggers and one no rule names
ActivityTypes == {"registration", "lesson_completed", "daily_check", "achievement_unlocked",
                  "weekly_summary", "course_completed", "page_view"}

DataKeys == {"lessonNumber", "daysInactive"}
DataValues == {Num(1), Num(3), Str(1)}

ActivityData == UNION {[ks -> DataValues] : ks \in SUBSET DataKeys}

\* trackUserActivity(userId, activityType, data) run to its end: the activity
\* saved (or the save threw), the rules whose notification was sent
trackUserActivity(activityType, data, userExists, saveOk, sendOk) ==
  LET fired == IF saveOk
               THEN checkEngagementTriggers(userExists, activityType, data, sendOk)
               ELSE <<>>
  IN [done |-> TRUE, type |-> activityType, data |-> data, userExists |-> userExists,
      recorded |-> saveOk, fired |-> fired,
      thrown |-> ~saveOk \/ (fired # <<>> /\ ~sendOk)]

TrackCalls ==
  {trackUserActivity(activityType, data, userExists, saveOk, sendOk) :
     activityType \in ActivityTypes, data \in ActivityData, userExists \in BOOLEAN,
     saveOk \in BOOLEAN, sendOk \in BOOLEAN}

NoTrackCall == [done |-> FALSE, type |-> "none", data |-> <<>>, userExists |-> FALSE,
                recorded |-> FALSE, fired |-> <<>>, thrown |-> FALSE]

----------------------------------------------------------------------------
(* HealthMonitor: the in-memory history and the health-*.json files *)
HealthHistoryCap == 100

\* loadHealthHistory reads the last 10 report files
LoadedReportFiles == 10

\* the numbers of health-*.json files initialize finds in the reports directory
ReportFilesFound == {0, 12}

Min(a, b) == IF a < b THEN a ELSE b

\* reports are named by their number: the runs of this process 1, 2, ..; the
\* k reports read from the files 1-k, .., 0, oldest first
loadHealthHistory(hist, found) ==
  hist \o [i \in 1..Min(found, LoadedReportFiles) |-> i - Min(found, LoadedReportFiles)]

\* storeHealthReport(healthReport): push, shift beyond the cap; then the file
\* health-<YYYY-MM-DD-HH-mm-ss>.json is written, replacing a file of that
\* second; a failed write is only logged
storeHealthReport(store, report, fsOk) ==
  [store EXCEPT
     !.history = PushCapped(@, report, HealthHistoryCap),
     !.files = IF fsOk /\ store.second # store.lastStamp THEN @ + 1 ELSE @,
     !.lastStamp = IF fsOk THEN store.second ELSE @]

\* second: the clock in whole seconds; lastStamp: the second in the name of
\* the newest file; found: the files that were there at initialize
InitHealthStore == [initialized |-> FALSE, history |-> <<>>, found |-> 0, files |-> 0,
                    lastStamp |-> 0, second |-> 1, runs |-> 0]

----------------------------------------------------------------------------
(* State after construction *)
InitNotifVars ==
  /\ isInitialized = FALSE
  /\ channels = {}
  /\ rateLimits = [ch \in RateLimitedChannels |-> [count |-> 0, resetTime |-> 0]]
  /\ nextId = 1
  /\ lastCall = NoCall
  /\ attempts = [ch \in RateLimitedChannels |-> 0]
  /\ transportDown \in DownChoices

InitClock == now = 0 /\ ticks = 0

(* AutomationSystem constructor *)
InitSchedVars ==
  /\ scheduledTasks = <<>>
  /\ cronJobs = <<>>
  /\ isRunning = FALSE
  /\ schedRunning = [j \in JobNames |-> 0]
  /\ manualRunning = [t \in TaskNames |-> 0]
  /\ lastManual = "none"
  /\ rejection = "none"
  /\ processState = "running"

(* no record stored yet, today's files not yet created *)
InitStoreVars ==
  /\ history = [type \in RecordTypes |-> <<>>]
  /\ dayFile = [type \in RecordTypes |-> <<>>]

InitWriterVars ==
  /\ writers = [w \in Writers |-> IdleWriter]
  /\ nextRec = 1
  /\ stored = {}

InitDeployVars ==
  /\ depInitialized = FALSE
  /\ currentBranch = "null"
  /\ dep = NoDeployment
  /\ nextDeployId = 1

InitEngageVars ==
  /\ eng = NoEngagement
  /\ engagementHistory = <<>>
  /\ nextEngId = 1

Init ==
  /\ InitClock /\ InitNotifVars /\ InitStoreVars /\ InitSchedVars
  /\ InitWriterVars /\ InitDeployVars
  /\ InitEngageVars
  /\ alertCall = NoAlertCall
  /\ shutdownCall = NoShutdown
  /\ manualCall = NoManualCall
  /\ healthCall = NoHealthCall
  /\ health = InitHealth
  /\ fsFiles = {}
  /\ cleanupCall = NoCleanupCall
  /\ backupStats = InitBackupStats
  /\ backupRuns = [r \in BackupRunIds |-> NoBackupRun]
  /\ lastBackup = NoLastBackup
  /\ restoreCall = NoRestoreCall
  /\ reportCall = NoReportCall
  /\ rollbackCall = NoRollbackCall
  /\ backupClock = BackupEpoch
  /\ stagingDirs = [r \in BackupRunIds |-> NotStarted]
  /\ trackCall = NoTrackCall
  /\ healthStore = InitHealthStore

(* The clock advances by a millisecond or by a whole window *)
Tick ==
  /\ ticks < MaxTicks
  /\ \E d \in {1, RateWindow} : now' = now + d
  /\ ticks' = ticks + 1
  /\ UNCHANGED notifVars
  /\ UNCHANGED storeVars
  /\ UNCHANGED schedVars
  /\ UNCHANGED writerVars
  /\ UNCHANGED deployVars
  /\ UNCHANGED moduleVars

(* initialize(): configureChannels from the environment *)
NotifInitialize ==
  /\ ~isInitialized
  /\ \E conf \in ConfigChoices : channels' = conf
  /\ isInitialized' = TRUE
  /\ UNCHANGED <<rateLimits, nextId, lastCall, attempts, transportDown>>
  /\ UNCHANGED storeVars
  /\ UNCHANGED clockVars
  /\ UNCHANGED writerVars
  /\ UNCHANGED deployVars
  /\ UNCHANGED moduleVars
  /\ UNCHANGED schedVars

\* the effect of one sendNotification call on the service's variables
ApplySend(chans, deliv, fsOk, via, severity, title) ==
  \E r \in {sendNotification(rateLimits, attempts, channels, notificationHistory,
                            dayFile["notification"], nextId, chans, now, deliv, fsOk,
                            via, severity, title)} :
     /\ rateLimits' = r.rl
     /\ attempts' = r.att
     /\ history' = [history EXCEPT !["notification"] = r.hist]
     /\ dayFile' = [dayFile EXCEPT !["notification"] = r.file]
     /\ lastCall' = r.call
     /\ nextId' = nextId + 1

\* the transports that fail during one call
Deliveries(chans) == {ChanSet(chans) \cap transportDown}

SendNotification ==
  /\ isInitialized
  /\ nextId <= MaxSends
  /\ \E chans \in ChannelLists : \E deliv \in Deliveries(chans) :
       ApplySend(chans, deliv, TRUE, "sendNotification", "none", "notify")
  /\ UNCHANGED <<isInitialized, channels, transportDown>>
  /\ UNCHANGED clockVars
  /\ UNCHANGED writerVars
  /\ UNCHANGED deployVars
  /\ UNCHANGED moduleVars
  /\ UNCHANGED schedVars

SendAlert ==
  /\ isInitialized
  /\ nextId <= MaxSends
  /\ \E sev \in Severities : \E deliv \in Deliveries(AlertChannels(channels, sev)) :
       ApplySend(AlertChannels(channels, sev), deliv, TRUE, "sendAlert", sev, "alert")
  /\ UNCHANGED <<isInitialized, channels, transportDown>>
  /\ UNCHANGED clockVars
  /\ UNCHANGED writerVars
  /\ UNCHANGED deployVars
  /\ UNCHANGED moduleVars
  /\ UNCHANGED schedVars

----------------------------------------------------------------------------
(* AutomationSystem *)

TotalRunning ==
  LET RECURSIVE SumJ(_), SumT(_)
      SumJ(S) == IF S = {} THEN 0
                 ELSE LET x == CHOOSE y \in S : TRUE IN schedRunning[x] + SumJ(S \ {x})
      SumT(S) == IF S = {} THEN 0
                 ELSE LET x == CHOOSE y \in S : TRUE IN manualRunning[x] + SumT(S \ {x})
  IN SumJ(JobNames) + SumT(TaskNames)

\* nothing runs after process.exit, and an unhandled rejection is dispatched
\* before any other callback
Alive == processState = "running" /\ rejection # "pending"

(* scheduleTask(name, cronExpression, task): a new cron job, bound to name *)
scheduleTask(st, cj, name) ==
  [cronJobs |-> Append(cj, [name |-> name, active |-> TRUE]),
   scheduledTasks |-> [n \in DOMAIN st \cup {name} |->
                         IF n = name THEN Len(cj) + 1 ELSE st[n]]]

RECURSIVE scheduleAll(_, _, _)
scheduleAll(st, cj, i) ==
  IF i > Len(Catalogue)
  THEN [cronJobs |-> cj, scheduledTasks |-> st]
  ELSE LET r == scheduleTask(st, cj, Catalogue[i])
       IN scheduleAll(r.scheduledTasks, r.cronJobs, i + 1)

(* initialize() of the CLI commands: every module's initialize() *)
SysInitialize ==
  /\ Alive
  /\ NotifInitialize

(* startScheduledTasks() *)
StartScheduledTasks ==
  /\ Alive
  /\ isInitialized
  /\ Len(cronJobs) < MaxStarts * Len(Catalogue)
  /\ LET r == scheduleAll(scheduledTasks, cronJobs, 1)
     IN /\ cronJobs' = r.cronJobs
        /\ scheduledTasks' = r.scheduledTasks
  /\ isRunning' = TRUE
  /\ UNCHANGED <<schedRunning, manualRunning, lastManual, rejection, processState>>
  /\ UNCHANGED notifVars
  /\ UNCHANGED storeVars
  /\ UNCHANGED clockVars
  /\ UNCHANGED writerVars
  /\ UNCHANGED deployVars
  /\ UNCHANGED moduleVars

(* stopScheduledTasks() *)
StopScheduledTasks ==
  /\ Alive
  /\ scheduledTasks # <<>>
  /\ cronJobs' = [i \in DOMAIN cronJobs |->
                    IF \E n \in DOMAIN scheduledTasks : scheduledTasks[n] = i
                    THEN [cronJobs[i] EXCEPT !.active = FALSE]
                    ELSE cronJobs[i]]
  /\ scheduledTasks' = <<>>
  /\ isRunning' = FALSE
  /\ UNCHANGED <<schedRunning, manualRunning, lastManual, rejection, processState>>
  /\ UNCHANGED notifVars
  /\ UNCHANGED storeVars
  /\ UNCHANGED clockVars
  /\ UNCHANGED writerVars
  /\ UNCHANGED deployVars
  /\ UNCHANGED moduleVars

(* the cron trigger of job c fires: the callback starts the handler *)
Fire(c) ==
  /\ Alive
  /\ cronJobs[c].active
  /\ cronJobs[c].name \in DueJobs
  /\ TotalRunning < MaxRunning
  /\ schedRunning' = [schedRunning EXCEPT ![cronJobs[c].name] = @ + 1]
  /\ UNCHANGED <<scheduledTasks, cronJobs, isRunning, manualRunning, lastManual,
                 rejection, processState>>
  /\ UNCHANGED notifVars
  /\ UNCHANGED storeVars
  /\ UNCHANGED clockVars
  /\ UNCHANGED writerVars
  /\ UNCHANGED deployVars
  /\ UNCHANGED moduleVars

(* await task() returns: the callback logs completion and resolves *)
HandlerSucceed(j) ==
  /\ Alive
  /\ schedRunning[j] > 0
  /\ schedRunning' = [schedRunning EXCEPT ![j] = @ - 1]
  /\ UNCHANGED <<scheduledTasks, cronJobs, isRunning, manualRunning, lastManual,
                 rejection, processState>>
  /\ UNCHANGED notifVars
  /\ UNCHANGED storeVars
  /\ UNCHANGED clockVars
  /\ UNCHANGED writerVars
  /\ UNCHANGED deployVars
  /\ UNCHANGED moduleVars

(* await task() throws: the catch block logs and awaits sendAlert; an error *)
(* thrown by sendAlert rejects the promise of the callback                  *)
HandlerFail(j) ==
  /\ Alive
  /\ schedRunning[j] > 0
  /\ isInitialized
  /\ nextId <= MaxSends
  /\ schedRunning' = [schedRunning EXCEPT ![j] = @ - 1]
  /\ LET chans == AlertChannels(channels, FailureAlertSeverity)
     IN \E deliv \in Deliveries(chans) :
          ApplySend(chans, deliv, TRUE, "sendAlert", FailureAlertSeverity, j)
  /\ rejection' = IF lastCall'.thrown THEN "pending" ELSE rejection
  /\ UNCHANGED <<isInitialized, channels, transportDown>>
  /\ UNCHANGED <<scheduledTasks, cronJobs, isRunning, manualRunning, lastManual,
                 processState>>
  /\ UNCHANGED clockVars
  /\ UNCHANGED writerVars
  /\ UNCHANGED deployVars
  /\ UNCHANGED moduleVars

(* process.on('unhandledRejection'): logs and exits with code 1 *)
UnhandledRejectionExit ==
  /\ processState = "running"
  /\ rejection = "pending"
  /\ processState' = "exit1"
  /\ UNCHANGED <<scheduledTasks, cronJobs, isRunning, schedRunning, manualRunning,
                 lastManual, rejection>>
  /\ UNCHANGED notifVars
  /\ UNCHANGED storeVars
  /\ UNCHANGED clockVars
  /\ UNCHANGED writerVars
  /\ UNCHANGED deployVars
  /\ UNCHANGED moduleVars

(* a cron library that attaches its own catch to the callback's promise *)
RejectionCaughtByCron ==
  /\ processState = "running"
  /\ rejection = "pending"
  /\ rejection' = "caught"
  /\ UNCHANGED <<scheduledTasks, cronJobs, isRunning, schedRunning, manualRunning,
                 lastManual, processState>>
  /\ UNCHANGED notifVars
  /\ UNCHANGED storeVars
  /\ UNCHANGED clockVars
  /\ UNCHANGED writerVars
  /\ UNCHANGED deployVars
  /\ UNCHANGED moduleVars

(* runManualTask(taskName, options): the switch starts the module's entry point *)
ManualStart(t) ==
  /\ Alive
  /\ isInitialized
  /\ t \in TaskNames
  /\ TotalRunning < MaxRunning
  /\ manualRunning' = [manualRunning EXCEPT ![t] = @ + 1]
  /\ UNCHANGED <<scheduledTasks, cronJobs, isRunning, schedRunning, lastManual,
                 rejection, processState>>
  /\ UNCHANGED notifVars
  /\ UNCHANGED storeVars
  /\ UNCHANGED clockVars
  /\ UNCHANGED writerVars
  /\ UNCHANGED deployVars
  /\ UNCHANGED moduleVars

(* runManualTask with a name outside the switch: throws Unknown task *)
ManualUnknown ==
  /\ Alive
  /\ lastManual' = "unknown-task"
  /\ UNCHANGED <<scheduledTasks, cronJobs, isRunning, schedRunning, manualRunning,
                 rejection, processState>>
  /\ UNCHANGED notifVars
  /\ UNCHANGED storeVars
  /\ UNCHANGED clockVars
  /\ UNCHANGED writerVars
  /\ UNCHANGED deployVars
  /\ UNCHANGED moduleVars

(* the entry point of a manual task returns or throws; the error is rethrown *)
ManualFinish(t, ok) ==
  /\ Alive
  /\ t # "notify"
  /\ manualRunning[t] > 0
  /\ manualRunning' = [manualRunning EXCEPT ![t] = @ - 1]
  /\ lastManual' = IF ok THEN "completed" ELSE "failed"
  /\ UNCHANGED <<scheduledTasks, cronJobs, isRunning, schedRunning,
                 rejection, processState>>
  /\ UNCHANGED notifVars
  /\ UNCHANGED storeVars
  /\ UNCHANGED clockVars
  /\ UNCHANGED writerVars
  /\ UNCHANGED deployVars
  /\ UNCHANGED moduleVars

(* task notify: sendNotification(options) *)
ManualNotifyFinish ==
  /\ Alive
  /\ manualRunning["notify"] > 0
  /\ nextId <= MaxSends
  /\ manualRunning' = [manualRunning EXCEPT !["notify"] = @ - 1]
  /\ \E chans \in ChannelLists : \E deliv \in Deliveries(chans) :
       ApplySend(chans, deliv, TRUE, "sendNotification", "none", "notify")
  /\ lastManual' = IF lastCall'.thrown THEN "failed" ELSE "completed"
  /\ UNCHANGED <<isInitialized, channels, transportDown>>
  /\ UNCHANGED <<scheduledTasks, cronJobs, isRunning, schedRunning,
                 rejection, processState>>
  /\ UNCHANGED clockVars
  /\ UNCHANGED writerVars
  /\ UNCHANGED deployVars
  /\ UNCHANGED moduleVars

\* cron callbacks whose handler has not returned yet
ScheduledInFlight ==
  Cardinality({<<j, k>> \in JobNames \X (1..MaxRunning) : k <= schedRunning[j]})

(* shutdown(): stopScheduledTasks, then every module's shutdown (which only *)
(* logs), then return                                                        *)
Shutdown ==
  /\ Alive
  /\ ~shutdownCall.returned
  /\ cronJobs' = [i \in DOMAIN cronJobs |->
                    IF \E n \in DOMAIN scheduledTasks : scheduledTasks[n] = i
                    THEN [cronJobs[i] EXCEPT !.active = FALSE]
                    ELSE cronJobs[i]]
  /\ scheduledTasks' = <<>>
  /\ isRunning' = FALSE
  /\ shutdownCall' = [returned |-> TRUE, inFlight |-> ScheduledInFlight,
                      live |-> Cardinality({i \in DOMAIN cronJobs : cronJobs'[i].active})]
  /\ UNCHANGED <<schedRunning, manualRunning, lastManual, rejection, processState>>
  /\ UNCHANGED coreVarsBesidesSched
  /\ UNCHANGED <<engageVars, alertVars, manualVars, healthVars, cleanupVars, backupVars,
               reportVars, rollbackVars, nameVars, trackVars, windowVars>>

(* the callers of shutdown (SIGINT handler, interactive exit): process.exit(0) *)
ExitAfterShutdown ==
  /\ Alive
  /\ shutdownCall.returned
  /\ processState' = "exit0"
  /\ UNCHANGED <<scheduledTasks, cronJobs, isRunning, schedRunning, manualRunning,
                 lastManual, rejection>>
  /\ UNCHANGED coreVarsBesidesSched
  /\ UNCHANGED moduleVars

(* the scheduler up to its shutdown: handlers that fail are left to SpecSched *)
NextShutdown ==
  \/ SysInitialize
  \/ StartScheduledTasks
  \/ StopScheduledTasks
  \/ \E c \in DOMAIN cronJobs : Fire(c)
  \/ \E j \in JobNames : HandlerSucceed(j)
  \/ \E t \in ManualInputs : ManualStart(t)
  \/ \E t \in TaskNames, ok \in BOOLEAN : ManualFinish(t, ok)
  \/ Shutdown
  \/ ExitAfterShutdown

SpecShutdown == Init /\ [][NextShutdown]_vars

NextSched ==
  \/ SysInitialize
  \/ StartScheduledTasks
  \/ StopScheduledTasks
  \/ \E c \in DOMAIN cronJobs : Fire(c)
  \/ \E j \in JobNames : HandlerSucceed(j)
  \/ \E j \in JobNames : HandlerFail(j)
  \/ UnhandledRejectionExit
  \/ RejectionCaughtByCron
  \/ \E t \in ManualInputs : ManualStart(t)
  \/ ManualUnknown
  \/ \E t \in TaskNames, ok \in BOOLEAN : ManualFinish(t, ok)

SpecSched == Init /\ [][NextSched]_vars

----------------------------------------------------------------------------
(* Two or more store operations in flight at once                            *)

(* up to the first await: push to the in-memory history, shift beyond the cap *)
StoreBegin(w, type) ==
  /\ writers[w].pc = "idle"
  /\ nextRec <= MaxRecords
  /\ LET rec == [id |-> nextRec, status |-> "completed"]
     IN /\ history' = [history EXCEPT ![type] = PushCapped(@, rec, HistoryCap(type))]
        /\ writers' = [writers EXCEPT ![w] =
                         [pc |-> "reading", type |-> type, rec |-> rec, buffer |-> <<>>]]
  /\ nextRec' = nextRec + 1
  /\ UNCHANGED <<dayFile, stored>>
  /\ UNCHANGED notifVars
  /\ UNCHANGED clockVars
  /\ UNCHANGED schedVars
  /\ UNCHANGED deployVars
  /\ UNCHANGED moduleVars

(* pathExists / readJson: the records the day file holds now *)
StoreRead(w) ==
  /\ writers[w].pc = "reading"
  /\ writers' = [writers EXCEPT ![w].pc = "writing",
                                ![w].buffer = dayFile[writers[w].type]]
  /\ UNCHANGED <<nextRec, stored>>
  /\ UNCHANGED storeVars
  /\ UNCHANGED notifVars
  /\ UNCHANGED clockVars
  /\ UNCHANGED schedVars
  /\ UNCHANGED deployVars
  /\ UNCHANGED moduleVars

(* push and writeJson: the file becomes what this writer read, plus its record *)
StoreWrite(w) ==
  /\ writers[w].pc = "writing"
  /\ dayFile' = [dayFile EXCEPT ![writers[w].type] =
                   Append(writers[w].buffer, writers[w].rec)]
  /\ stored' = stored \cup {<<writers[w].type, writers[w].rec.id>>}
  /\ writers' = [writers EXCEPT ![w] = IdleWriter]
  /\ UNCHANGED <<history, nextRec>>
  /\ UNCHANGED notifVars
  /\ UNCHANGED clockVars
  /\ UNCHANGED schedVars
  /\ UNCHANGED deployVars
  /\ UNCHANGED moduleVars

(* a file-system call throws: the catch logs a warning and the function returns *)
StoreFail(w) ==
  /\ writers[w].pc \in {"reading", "writing"}
  /\ writers' = [writers EXCEPT ![w] = IdleWriter]
  /\ UNCHANGED <<nextRec, stored>>
  /\ UNCHANGED storeVars
  /\ UNCHANGED notifVars
  /\ UNCHANGED clockVars
  /\ UNCHANGED schedVars
  /\ UNCHANGED deployVars
  /\ UNCHANGED moduleVars

NextStore ==
  \/ \E w \in Writers, type \in RecordTypes : StoreBegin(w, type)
  \/ \E w \in Writers : StoreRead(w)
  \/ \E w \in Writers : StoreWrite(w)
  \/ \E w \in Writers : StoreFail(w)

SpecStore == Init /\ [][NextStore]_vars

----------------------------------------------------------------------------
(* DeploymentAutomation.deploy, one step per stage                           *)

(* storeDeployment(deployment) with no other writer in between *)
storeDeployment(rec, fsOk) ==
  \E st \in {storeRecord("deployment", deploymentHistory, dayFile["deployment"], rec, fsOk)} :
     /\ history' = [history EXCEPT !["deployment"] = st.hist]
     /\ dayFile' = [dayFile EXCEPT !["deployment"] = st.file]

\* variant: the catch block rethrows without storing the record
DeployCatch_skipsStore(deployment, error, fsOk) ==
  /\ dep' = [deployment EXCEPT !.pc = "thrown", !.status = "failed", !.error = error]
  /\ UNCHANGED storeVars

(* the catch block of deploy: status failed, the error message, the record  *)
(* stored, the error rethrown                                                *)
DeployCatch(deployment, error, fsOk) ==
  /\ dep' = [deployment EXCEPT !.pc = "thrown", !.status = "failed", !.error = error]
  /\ storeDeployment([id |-> deployment.id, status |-> "failed"], fsOk)

(* initialize(): the current branch and the records of the day files *)
DeployInitialize ==
  /\ ~depInitialized
  /\ \E b \in Branches : currentBranch' = b
  /\ history' = [history EXCEPT !["deployment"] = @ \o dayFile["deployment"]]
  /\ depInitialized' = TRUE
  /\ UNCHANGED <<dayFile, dep, nextDeployId>>
  /\ UNCHANGED notifVars
  /\ UNCHANGED clockVars
  /\ UNCHANGED schedVars
  /\ UNCHANGED writerVars
  /\ UNCHANGED moduleVars

(* deploy(options) up to the call of preDeploymentChecks *)
DeployBegin ==
  /\ depInitialized
  /\ dep.pc \in {"none", "returned", "thrown"}
  /\ nextDeployId <= MaxDeploys
  /\ \E environment \in EnvironmentInputs, platform \in PlatformInputs,
        force \in BOOLEAN, skipTests \in BOOLEAN :
       dep' = [pc |-> "prechecks", id |-> nextDeployId,
               environment |-> environment, platform |-> platform,
               force |-> force, skipTests |-> skipTests,
               branch |-> currentBranch, dirty |-> "unknown",
               status |-> "pending", error |-> "null",
               buildLog |-> <<>>, deployLog |-> <<>>]
  /\ nextDeployId' = nextDeployId + 1
  /\ UNCHANGED <<depInitialized, currentBranch>>
  /\ UNCHANGED storeVars
  /\ UNCHANGED notifVars
  /\ UNCHANGED clockVars
  /\ UNCHANGED schedVars
  /\ UNCHANGED writerVars
  /\ UNCHANGED moduleVars

(* await this.preDeploymentChecks(deployment, { skipTests }) *)
DeployPreChecks ==
  /\ dep.pc = "prechecks"
  /\ \E dirty \in BOOLEAN, pkg \in PackageStates, fsOk \in BOOLEAN :
       \E r \in {preDeploymentChecks(dep, [skipTests |-> dep.skipTests],
                                     currentBranch, dirty, pkg)} :
          LET d == [dep EXCEPT !.buildLog = r.buildLog, !.dirty = r.dirty]
          IN IF r.error # "null"
             THEN DeployCatch(d, r.error, fsOk)
             ELSE /\ dep' = [d EXCEPT !.pc = IF dep.skipTests THEN "build" ELSE "tests"]
                  /\ UNCHANGED storeVars
  /\ UNCHANGED <<depInitialized, currentBranch, nextDeployId>>
  /\ UNCHANGED notifVars
  /\ UNCHANGED clockVars
  /\ UNCHANGED schedVars
  /\ UNCHANGED writerVars
  /\ UNCHANGED moduleVars

(* runTests(deployment): npm test closes with code 0 or not *)
DeployRunTests(ok) ==
  /\ dep.pc = "tests"
  /\ LET d == [dep EXCEPT !.buildLog = Append(@, "Running tests...")]
     IN IF ok
        THEN /\ dep' = [d EXCEPT !.buildLog = Append(@, "Tests passed"), !.pc = "build"]
             /\ UNCHANGED storeVars
        ELSE \E fsOk \in BOOLEAN : DeployCatch(d, "TestsFailed", fsOk)
  /\ UNCHANGED <<depInitialized, currentBranch, nextDeployId>>
  /\ UNCHANGED notifVars
  /\ UNCHANGED clockVars
  /\ UNCHANGED schedVars
  /\ UNCHANGED writerVars
  /\ UNCHANGED moduleVars

\* variant: a failed build is logged but the pipeline goes on
DeployBuild_ignoresFailure(ok) ==
  /\ dep.pc = "build"
  /\ LET d == [dep EXCEPT !.buildLog = Append(@, "Building application...")]
     IN /\ dep' = IF ok
                  THEN [d EXCEPT !.buildLog = Append(@, "Build completed successfully"),
                                 !.pc = "platform"]
                  ELSE [d EXCEPT !.pc = "platform"]
        /\ UNCHANGED storeVars
  /\ UNCHANGED <<depInitialized, currentBranch, nextDeployId>>
  /\ UNCHANGED notifVars
  /\ UNCHANGED clockVars
  /\ UNCHANGED schedVars
  /\ UNCHANGED writerVars
  /\ UNCHANGED moduleVars

(* buildApplication(deployment, { buildCommand }) *)
DeployBuild(ok) ==
  /\ dep.pc = "build"
  /\ LET d == [dep EXCEPT !.buildLog = Append(@, "Building application...")]
     IN IF ok
        THEN /\ dep' = [d EXCEPT !.buildLog = Append(@, "Build completed successfully"),
                                 !.pc = "platform"]
             /\ UNCHANGED storeVars
        ELSE \E fsOk \in BOOLEAN : DeployCatch(d, "BuildFailed", fsOk)
  /\ UNCHANGED <<depInitialized, currentBranch, nextDeployId>>
  /\ UNCHANGED notifVars
  /\ UNCHANGED clockVars
  /\ UNCHANGED schedVars
  /\ UNCHANGED writerVars
  /\ UNCHANGED moduleVars

(* deployToPlatform(deployment, { platform, deployCommand }) *)
DeployToPlatform(ok) ==
  /\ dep.pc = "platform"
  /\ LET d == [dep EXCEPT !.deployLog = Append(@, "Deploying to platform...")]
     IN IF dep.platform \in {"vercel", "netlify"}
        THEN IF ok
             THEN /\ dep' = [d EXCEPT !.deployLog = Append(@, "Platform deployment completed"),
                                      !.pc = "postchecks"]
                  /\ UNCHANGED storeVars
             ELSE \E fsOk \in BOOLEAN : DeployCatch(d, "DeployFailed", fsOk)
        ELSE IF dep.platform = "aws"
        THEN \E fsOk \in BOOLEAN :
               DeployCatch([d EXCEPT !.deployLog =
                                       Append(@, "AWS deployment not yet implemented")],
                           "NotImplemented", fsOk)
        ELSE \E fsOk \in BOOLEAN : DeployCatch(d, "UnsupportedPlatform", fsOk)
  /\ UNCHANGED <<depInitialized, currentBranch, nextDeployId>>
  /\ UNCHANGED notifVars
  /\ UNCHANGED clockVars
  /\ UNCHANGED schedVars
  /\ UNCHANGED writerVars
  /\ UNCHANGED moduleVars

\* variant: a probe answer other than 200 fails the deployment
DeployPostChecks_strict(probe) ==
  /\ dep.pc = "postchecks"
  /\ probe # "none" => dep.environment \in Environments
  /\ LET log0 == Append(dep.deployLog, "Running post-deployment checks...")
     IN IF probe \in {"non200", "error"}
        THEN \E fsOk \in BOOLEAN :
               DeployCatch([dep EXCEPT !.deployLog =
                                         Append(log0, "Warning: Deployment returned status")],
                           "ProbeFailed", fsOk)
        ELSE /\ dep' = [dep EXCEPT !.deployLog = Append(log0, "Post-deployment checks completed"),
                                   !.status = "success", !.pc = "returned"]
             /\ \E fsOk \in BOOLEAN :
                  storeDeployment([id |-> dep.id, status |-> "success"], fsOk)
  /\ UNCHANGED <<depInitialized, currentBranch, nextDeployId>>
  /\ UNCHANGED notifVars
  /\ UNCHANGED clockVars
  /\ UNCHANGED schedVars
  /\ UNCHANGED writerVars
  /\ UNCHANGED moduleVars

(* postDeploymentChecks, then status success and storeDeployment *)
DeployPostChecks(probe) ==
  /\ dep.pc = "postchecks"
  /\ probe # "none" => dep.environment \in Environments
  /\ LET log0 == Append(dep.deployLog, "Running post-deployment checks...")
         log1 == CASE probe = "200" -> Append(log0, "Deployment accessible")
                   [] probe = "non200" -> Append(log0, "Warning: Deployment returned status")
                   [] probe = "error" ->
                        Append(log0, "Warning: Could not verify deployment accessibility")
                   [] OTHER -> log0
     IN /\ dep' = [dep EXCEPT !.deployLog = Append(log1, "Post-deployment checks completed"),
                              !.status = "success", !.pc = "returned"]
        /\ \E fsOk \in BOOLEAN : storeDeployment([id |-> dep.id, status |-> "success"], fsOk)
  /\ UNCHANGED <<depInitialized, currentBranch, nextDeployId>>
  /\ UNCHANGED notifVars
  /\ UNCHANGED clockVars
  /\ UNCHANGED schedVars
  /\ UNCHANGED writerVars
  /\ UNCHANGED moduleVars

NextDeploy ==
  \/ DeployInitialize
  \/ DeployBegin
  \/ DeployPreChecks
  \/ \E ok \in BOOLEAN : DeployRunTests(ok)
  \/ \E ok \in BOOLEAN : DeployBuild(ok)
  \/ \E ok \in BOOLEAN : DeployToPlatform(ok)
  \/ \E probe \in ProbeResults : DeployPostChecks(probe)

SpecDeploy == Init /\ [][NextDeploy]_vars

----------------------------------------------------------------------------
(* UserEngagement.sendEngagementNotification, one step per await             *)

(* storeEngagementNotification up to its await: push, shift beyond the cap *)
PushEngagement(hist, notification) ==
  PushCapped(hist, [id |-> notification.id, status |-> notification.status],
             EngagementHistoryCap)

(* rule and template found, the notification object created *)
EngageBegin ==
  /\ eng.pc \in {"none", "returned", "thrown"}
  /\ nextEngId <= MaxEngage
  /\ eng' = [pc |-> "sending", id |-> nextEngId, status |-> "pending", error |-> "null"]
  /\ nextEngId' = nextEngId + 1
  /\ UNCHANGED engagementHistory
  /\ UNCHANGED besidesEngage

(* the loop over rule.channels; then status 'sent' (or, in the catch block, *)
(* 'failed') and the call of storeEngagementNotification up to its await    *)
EngageSend(ok) ==
  /\ eng.pc = "sending"
  /\ LET n == IF ok THEN [eng EXCEPT !.status = "sent", !.pc = "savingTry"]
                    ELSE [eng EXCEPT !.status = "failed", !.error = "DeliveryError",
                                     !.pc = "savingCatch"]
     IN /\ eng' = n
        /\ engagementHistory' = PushEngagement(engagementHistory, n)
  /\ UNCHANGED nextEngId
  /\ UNCHANGED besidesEngage

(* await dbNotification.save() inside the try block: when it rejects, the   *)
(* catch block sets status 'failed' and calls storeEngagementNotification   *)
(* again                                                                     *)
EngageSaveTry(dbOk) ==
  /\ eng.pc = "savingTry"
  /\ IF dbOk
     THEN /\ eng' = [eng EXCEPT !.pc = "returned"]
          /\ UNCHANGED engagementHistory
     ELSE LET n == [eng EXCEPT !.status = "failed", !.error = "SaveError",
                               !.pc = "savingCatch"]
          IN /\ eng' = n
             /\ engagementHistory' =
                  PushEngagement(Retag(engagementHistory, n.id, n.status), n)
  /\ UNCHANGED nextEngId
  /\ UNCHANGED besidesEngage

(* await dbNotification.save() inside the catch block: the error is thrown  *)
(* to the caller whether the save resolves or rejects                        *)
EngageSaveCatch(dbOk) ==
  /\ eng.pc = "savingCatch"
  /\ eng' = [eng EXCEPT !.pc = "thrown", !.error = IF dbOk THEN @ ELSE "SaveError"]
  /\ UNCHANGED <<engagementHistory, nextEngId>>
  /\ UNCHANGED besidesEngage

NextEngage ==
  \/ EngageBegin
  \/ \E ok \in BOOLEAN : EngageSend(ok)
  \/ \E dbOk \in BOOLEAN : EngageSaveTry(dbOk)
  \/ \E dbOk \in BOOLEAN : EngageSaveCatch(dbOk)

SpecEngage == Init /\ [][NextEngage]_vars

----------------------------------------------------------------------------
(* sendAlert: the channel list handed to sendNotification *)
AlertSelect ==
  /\ \E conf \in SUBSET ChannelNames, severity \in AlertSeverities :
       alertCall' = [done |-> TRUE, conf |-> conf, severity |-> severity,
                     channels |-> AlertChannels(conf, severity)]
  /\ UNCHANGED besidesAlert

NextAlert == AlertSelect

SpecAlert == Init /\ [][NextAlert]_vars

----------------------------------------------------------------------------
(* runManualTask(taskName, options) run to its end *)

(* every case but notify: the handler ends ok or throws; the catch block of *)
(* runManualTask rethrows                                                    *)
RunManualTask(t, ok) ==
  /\ isInitialized
  /\ t \in TaskNames \ {"notify"}
  /\ ok => HandlerCanSucceed(t)
  /\ manualCall.n < MaxManual
  /\ LET type == ManualStores(t, ok)
     IN /\ manualCall' = [n |-> manualCall.n + 1, task |-> t, known |-> TRUE, ok |-> ok,
                          thrown |-> ~ok, stored |-> type]
        /\ IF type \in RecordTypes
           THEN /\ nextRec <= MaxRecords
                /\ \E fsOk \in BOOLEAN :
                     \E st \in {storeRecord(type, history[type], dayFile[type],
                                            [id |-> nextRec,
                                             status |-> IF ok THEN "completed" ELSE "failed"],
                                            fsOk)} :
                        /\ history' = [history EXCEPT ![type] = st.hist]
                        /\ dayFile' = [dayFile EXCEPT ![type] = st.file]
                /\ nextRec' = nextRec + 1
           ELSE UNCHANGED <<history, dayFile, nextRec>>
  /\ UNCHANGED <<writers, stored>>
  /\ UNCHANGED notifVars
  /\ UNCHANGED clockVars
  /\ UNCHANGED schedVars
  /\ UNCHANGED deployVars
  /\ UNCHANGED besidesManual

(* case 'notify': sendNotification(options) *)
RunManualNotify ==
  /\ isInitialized
  /\ manualCall.n < MaxManual
  /\ nextId <= MaxSends
  /\ \E chans \in ChannelLists : \E deliv \in Deliveries(chans) :
       ApplySend(chans, deliv, TRUE, "sendNotification", "none", "notify")
  /\ manualCall' = [n |-> manualCall.n + 1, task |-> "notify", known |-> TRUE,
                    ok |-> ~lastCall'.thrown, thrown |-> lastCall'.thrown,
                    stored |-> "notification"]
  /\ UNCHANGED <<isInitialized, channels, transportDown>>
  /\ UNCHANGED clockVars
  /\ UNCHANGED schedVars
  /\ UNCHANGED writerVars
  /\ UNCHANGED deployVars
  /\ UNCHANGED besidesManual

\* variant: the default case returns without an error
RunManualUnknown_silent(t) ==
  /\ isInitialized
  /\ t \notin TaskNames
  /\ manualCall.n < MaxManual
  /\ manualCall' = [n |-> manualCall.n + 1, task |-> t, known |-> FALSE, ok |-> FALSE,
                    thrown |-> FALSE, stored |-> "none"]
  /\ UNCHANGED coreVars
  /\ UNCHANGED besidesManual

(* default case: throw new Error(`Unknown task: ${taskName}`) *)
RunManualUnknown(t) ==
  /\ isInitialized
  /\ t \notin TaskNames
  /\ manualCall.n < MaxManual
  /\ manualCall' = [n |-> manualCall.n + 1, task |-> t, known |-> FALSE, ok |-> FALSE,
                    thrown |-> TRUE, stored |-> "none"]
  /\ UNCHANGED coreVars
  /\ UNCHANGED besidesManual

NextManual ==
  \/ SysInitialize
  \/ \E t \in ManualTaskInputs, ok \in BOOLEAN : RunManualTask(t, ok)
  \/ RunManualNotify
  \/ \E t \in ManualTaskInputs : RunManualUnknown(t)

SpecManual == Init /\ [][NextManual]_vars

----------------------------------------------------------------------------
(* HealthMonitor.checkHealth *)

(* the checks run in parallel and their aggregation *)
RunHealthChecks ==
  /\ isInitialized
  /\ healthCall' \in HealthAggregations
  /\ UNCHANGED health
  /\ UNCHANGED coreVars
  /\ UNCHANGED besidesHealth

HealthTick ==
  /\ health.ticks < MaxHealthTicks
  /\ \E d \in HealthSteps :
       health' = [health EXCEPT !.now = @ + d, !.ticks = @ + 1]
  /\ UNCHANGED healthCall
  /\ UNCHANGED coreVars
  /\ UNCHANGED besidesHealth

\* variant: every run stamps lastAlert, also a run that raised nothing
CheckHealth_stampsEveryRun ==
  /\ isInitialized
  /\ health.n < MaxChecks
  /\ \E run \in HealthRuns :
       \E r \in {checkForAlerts(run.candidates, health.lastAlert, health.now)} :
          health' = [health EXCEPT
                       !.n = @ + 1,
                       !.lastAlert = health.now,
                       !.database = run.database,
                       !.alerts = r.alerts,
                       !.raisedAt = [b \in Breaches |->
                                       IF b \in r.alerts THEN health.now ELSE @[b]]]
  /\ UNCHANGED healthCall
  /\ UNCHANGED coreVars
  /\ UNCHANGED besidesHealth

(* checkHealth run to its end: checks, overall status, alerts, stored report *)
CheckHealth ==
  /\ isInitialized
  /\ health.n < MaxChecks
  /\ \E run \in HealthRuns :
       \E r \in {checkForAlerts(run.candidates, health.lastAlert, health.now)} :
          health' = [health EXCEPT
                       !.n = @ + 1,
                       !.lastAlert = r.lastAlert,
                       !.database = run.database,
                       !.alerts = r.alerts,
                       !.raisedAt = [b \in Breaches |->
                                       IF b \in r.alerts THEN health.now ELSE @[b]]]
  /\ UNCHANGED healthCall
  /\ UNCHANGED coreVars
  /\ UNCHANGED besidesHealth

NextHealthStatus == SysInitialize \/ RunHealthChecks

SpecHealthStatus == Init /\ [][NextHealthStatus]_vars

NextHealth == SysInitialize \/ HealthTick \/ CheckHealth

SpecHealth == Init /\ [][NextHealth]_vars

----------------------------------------------------------------------------
(* CleanupService.performCleanup *)

(* the environment: the files created before the first run, in table order *)
FileAppears ==
  /\ cleanupCall.n = 0
  /\ \E f \in FileIds \ fsFiles :
       /\ fsFiles = 1..(f - 1)
       /\ fsFiles' = fsFiles \cup {f}
  /\ UNCHANGED cleanupCall
  /\ UNCHANGED coreVars
  /\ UNCHANGED besidesCleanup

(* performCleanup(options) run to its end, with the directories whose      *)
(* readdir throws and the files whose removal throws as inputs             *)
PerformCleanup ==
  /\ isInitialized
  /\ cleanupCall.n < MaxCleanups
  /\ \E rules \in CleanupRuleLists, dryRun \in BOOLEAN, fault \in CleanupFaults(fsFiles) :
       \E r \in {performCleanup(rules, dryRun, fsFiles, CleanupEpoch, fault.unreadable,
                                fault.undeletable)} :
          /\ fsFiles' = r.present
          /\ cleanupCall' = [n |-> cleanupCall.n + 1, dryRun |-> dryRun, rules |-> rules,
                             unreadable |-> fault.unreadable,
                             undeletable |-> fault.undeletable,
                             results |-> r.results, errors |-> r.errors,
                             status |-> r.status]
          /\ \E fsOk \in BOOLEAN :
               \E st \in {storeRecord("cleanup", history["cleanup"], dayFile["cleanup"],
                                      [id |-> nextRec, status |-> r.status], fsOk)} :
                  /\ history' = [history EXCEPT !["cleanup"] = st.hist]
                  /\ dayFile' = [dayFile EXCEPT !["cleanup"] = st.file]
  /\ nextRec' = nextRec + 1
  /\ UNCHANGED <<writers, stored>>
  /\ UNCHANGED notifVars
  /\ UNCHANGED clockVars
  /\ UNCHANGED schedVars
  /\ UNCHANGED deployVars
  /\ UNCHANGED besidesCleanup

NextCleanup == SysInitialize \/ FileAppears \/ PerformCleanup

SpecCleanup == Init /\ [][NextCleanup]_vars

----------------------------------------------------------------------------
(* DatabaseBackup.performBackup, step by step, several calls in flight *)
BackupFrame ==
  /\ UNCHANGED restoreCall
  /\ UNCHANGED coreVars
  /\ UNCHANGED besidesBackup

(* from the call to the end of cleanupLocalFiles: export, archive, uploads *)
BackupStart(r, exportOk, size, s3Ok, driveOk) ==
  /\ isInitialized
  /\ backupRuns[r].pc = "idle"
  /\ \A q \in BackupRunIds : q < r => backupRuns[q].pc # "idle"
  /\ backupRuns' = [backupRuns EXCEPT ![r] =
                      IF exportOk
                      THEN [pc |-> "stats", size |-> size, s3Ok |-> s3Ok,
                            driveOk |-> driveOk, readTotal |-> 0]
                      ELSE [NoBackupRun EXCEPT !.pc = "failed"]]
  /\ UNCHANGED <<backupStats, lastBackup>>
  /\ BackupFrame

(* updateBackupStats(archivePath, duration, true) up to the await of        *)
(* getFileSize: the left side of totalSize += ... is read before the await  *)
BackupStatsBegin(r) ==
  /\ backupRuns[r].pc = "stats"
  /\ backupStats' = [backupStats EXCEPT !.totalBackups = @ + 1,
                                        !.successfulBackups = @ + 1]
  /\ backupRuns' = [backupRuns EXCEPT ![r].pc = "size",
                                      ![r].readTotal = backupStats.totalSize]
  /\ UNCHANGED lastBackup
  /\ BackupFrame

(* getFileSize resolved: the sum is assigned and writeJson is called *)
BackupStatsAdd(r) ==
  /\ backupRuns[r].pc = "size"
  /\ backupStats' = [backupStats EXCEPT
                       !.totalSize = backupRuns[r].readTotal + backupRuns[r].size]
  /\ backupRuns' = [backupRuns EXCEPT ![r].pc = "write"]
  /\ UNCHANGED lastBackup
  /\ BackupFrame

(* writeJson of backup-stats.json settled: the run sets lastBackup and      *)
(* returns, or the rejection takes it to the catch block                    *)
BackupStatsWritten(r, ok) ==
  /\ backupRuns[r].pc = "write"
  /\ IF ok
     THEN /\ lastBackup' = [name |-> r, size |-> backupRuns[r].size,
                            cloudStorage |-> getCloudStorageStatus]
          /\ backupRuns' = [backupRuns EXCEPT ![r].pc = "done"]
     ELSE /\ backupRuns' = [backupRuns EXCEPT ![r].pc = "failed"]
          /\ UNCHANGED lastBackup
  /\ UNCHANGED backupStats
  /\ BackupFrame

(* the catch block: updateBackupStats(null, duration, false), then rethrow *)
BackupCatch(r) ==
  /\ backupRuns[r].pc = "failed"
  /\ backupStats' = [backupStats EXCEPT !.totalBackups = @ + 1,
                                        !.failedBackups = @ + 1]
  /\ backupRuns' = [backupRuns EXCEPT ![r].pc = "thrown"]
  /\ UNCHANGED lastBackup
  /\ BackupFrame

NextBackup ==
  \/ SysInitialize
  \/ \E r \in BackupRunIds, exportOk \in BOOLEAN, size \in ArchiveSizes,
        s3Ok \in BOOLEAN, driveOk \in BOOLEAN : BackupStart(r, exportOk, size, s3Ok, driveOk)
  \/ \E r \in BackupRunIds : BackupStatsBegin(r)
  \/ \E r \in BackupRunIds : BackupStatsAdd(r)
  \/ \E r \in BackupRunIds, ok \in BOOLEAN : BackupStatsWritten(r, ok)
  \/ \E r \in BackupRunIds : BackupCatch(r)

SpecBackup == Init /\ [][NextBackup]_vars

(* a dataset is backed up and the archive restored into an empty database *)
BackupThenRestore ==
  /\ isInitialized
  /\ \E db \in Datasets, dropExisting \in BOOLEAN :
       restoreCall' = [done |-> TRUE, source |-> db, dropExisting |-> dropExisting,
                       target |-> importCollections(extractBackup(exportCollections(db)),
                                                    dropExisting, <<>>)]
  /\ UNCHANGED <<backupStats, backupRuns, lastBackup>>
  /\ UNCHANGED coreVars
  /\ UNCHANGED besidesBackup

NextRestore == SysInitialize \/ BackupThenRestore

SpecRestore == Init /\ [][NextRestore]_vars

----------------------------------------------------------------------------
(* ReportGenerator.generateReport(options), the whole call with the record *)
(* it stores                                                               *)
GenerateReport ==
  /\ isInitialized
  /\ nextRec <= MaxRecords
  /\ \E type \in ReportTypes, sections \in ReportSectionLists, format \in ReportFormats,
        saveOk \in BOOLEAN, fsOk \in BOOLEAN :
       \E r \in {generateReport(type, sections, format, saveOk)} :
          /\ reportCall' = [done |-> TRUE, type |-> type, format |-> format, report |-> r]
          /\ \E st \in {storeRecord("report", history["report"], dayFile["report"],
                                    [id |-> nextRec, status |-> r.status], fsOk)} :
               /\ history' = [history EXCEPT !["report"] = st.hist]
               /\ dayFile' = [dayFile EXCEPT !["report"] = st.file]
  /\ nextRec' = nextRec + 1
  /\ UNCHANGED <<writers, stored>>
  /\ UNCHANGED notifVars
  /\ UNCHANGED clockVars
  /\ UNCHANGED schedVars
  /\ UNCHANGED deployVars
  /\ UNCHANGED besidesReport

NextReport == SysInitialize \/ GenerateReport

SpecReport == Init /\ [][NextReport]_vars

----------------------------------------------------------------------------
(* DeploymentAutomation.rollback(deploymentId) against the deployment      *)
(* records stored so far                                                   *)
Rollback ==
  /\ \E deploymentId \in RollbackIds :
       \E r \in {rollback(deploymentHistory, deploymentId)} :
          /\ rollbackCall' = [done |-> TRUE, id |-> deploymentId, error |-> r.error]
          /\ history' = [history EXCEPT !["deployment"] = r.hist]
  /\ UNCHANGED dayFile
  /\ UNCHANGED writerVars
  /\ UNCHANGED notifVars
  /\ UNCHANGED clockVars
  /\ UNCHANGED schedVars
  /\ UNCHANGED deployVars
  /\ UNCHANGED besidesRollback

ManualDeploy == \E ok \in BOOLEAN : RunManualTask("deploy", ok)

NextRollback == SysInitialize \/ ManualDeploy \/ Rollback

SpecRollback == Init /\ [][NextRollback]_vars

----------------------------------------------------------------------------
(* DatabaseBackup.performBackup: the staging directory and archive of a run *)
BackupClockTick ==
  /\ backupClock < BackupEpoch + MaxBackupSpan
  /\ \E d \in BackupClockSteps : backupClock' = backupClock + d
  /\ UNCHANGED stagingDirs
  /\ UNCHANGED besidesNames

(* performBackup from the call to fs.ensureDir(backupPath) *)
BackupEnsureDir(r) ==
  /\ isInitialized
  /\ stagingDirs[r] = NotStarted
  /\ \A q \in BackupRunIds : q < r => stagingDirs[q] # NotStarted
  /\ stagingDirs' = [stagingDirs EXCEPT ![r] = backupName(backupClock)]
  /\ UNCHANGED backupClock
  /\ UNCHANGED besidesNames

NextNames ==
  \/ SysInitialize
  \/ BackupClockTick
  \/ \E r \in BackupRunIds : BackupEnsureDir(r)

SpecNames == Init /\ [][NextNames]_vars

----------------------------------------------------------------------------
(* a call of UserEngagement.trackUserActivity *)
TrackUserActivity ==
  /\ trackCall' \in TrackCalls
  /\ UNCHANGED besidesTrack

NextTrack == TrackUserActivity

SpecTrack == Init /\ [][NextTrack]_vars

----------------------------------------------------------------------------
(* HealthMonitor: initialize, and checkHealth runs seen by what they store *)
HealthInitialize ==
  /\ ~healthStore.initialized
  /\ \E found \in ReportFilesFound :
       healthStore' = [healthStore EXCEPT
                         !.initialized = TRUE,
                         !.found = found,
                         !.files = found,
                         !.history = loadHealthHistory(@, found)]
  /\ UNCHANGED besidesWindow

(* a second passes; the clock is never more than a second past the newest file *)
HealthSecond ==
  /\ healthStore.second <= healthStore.lastStamp
  /\ healthStore' = [healthStore EXCEPT !.second = @ + 1]
  /\ UNCHANGED besidesWindow

(* checkHealth run to its end: the report stored *)
CheckHealthStore ==
  /\ healthStore.initialized
  /\ healthStore.runs < MaxHealthRuns
  /\ \E fsOk \in BOOLEAN :
       healthStore' = [storeHealthReport(healthStore, healthStore.runs + 1, fsOk)
                         EXCEPT !.runs = @ + 1]
  /\ UNCHANGED besidesWindow

NextWindow == HealthInitialize \/ HealthSecond \/ CheckHealthStore

SpecWindow == Init /\ [][NextWindow]_vars

----------------------------------------------------------------------------
(* DeploymentAutomation: the history over many deploy calls and a restart  *)

(* deploy({ platform: 'aws' }) run to its end: whichever stage it reaches,  *)
(* the call ends in the catch block (deployToAWS is not implemented), which *)
(* stores the failed record and rethrows.  Of the deployment object the     *)
(* logs are left out; the day file is written                               *)
DeployAws ==
  /\ depInitialized
  /\ dep.pc \in {"none", "returned", "thrown"}
  /\ nextDeployId <= MaxStoredDeploys
  /\ DeployCatch([NoDeployment EXCEPT !.id = nextDeployId, !.platform = "aws",
                                      !.environment = "development",
                                      !.branch = currentBranch],
                 "NotImplemented", TRUE)
  /\ nextDeployId' = nextDeployId + 1
  /\ UNCHANGED <<depInitialized, currentBranch>>
  /\ UNCHANGED notifVars
  /\ UNCHANGED clockVars
  /\ UNCHANGED schedVars
  /\ UNCHANGED writerVars
  /\ UNCHANGED moduleVars

(* the process ends and a new one constructs its DeploymentAutomation: the  *)
(* fields are those of the constructor, the day files stay; ids are built   *)
(* from the clock and are not reused                                        *)
DeployRestart ==
  /\ depInitialized
  /\ dep.pc \in {"none", "returned", "thrown"}
  /\ history' = [history EXCEPT !["deployment"] = <<>>]
  /\ depInitialized' = FALSE
  /\ currentBranch' = "null"
  /\ dep' = NoDeployment
  /\ UNCHANGED <<dayFile, nextDeployId>>
  /\ UNCHANGED notifVars
  /\ UNCHANGED clockVars
  /\ UNCHANGED schedVars
  /\ UNCHANGED writerVars
  /\ UNCHANGED moduleVars

NextDeployHistory == DeployInitialize \/ DeployAws \/ DeployRestart

SpecDeployHistory == Init /\ [][NextDeployHistory]_vars

NextNotif == Tick \/ NotifInitialize \/ SendNotification \/ SendAlert

SpecNotif == Init /\ [][NextNotif]_vars

Next == NextNotif \/ NextSched \/ NextStore \/ NextDeploy \/ NextEngage
        \/ NextAlert \/ NextShutdown \/ NextManual
        \/ NextHealthStatus \/ NextHealth \/ NextCleanup
        \/ NextBackup \/ NextRestore
        \/ NextReport \/ NextRollback
        \/ NextNames \/ NextTrack \/ NextWindow \/ NextDeployHistory
Spec == Init /\ [][Next]_vars

----------------------------------------------------------------------------
(* Claims about NotificationService (checked under SpecNotif) *)

Attempted(call, ch) ==
  \E i \in 1..Len(call.results) :
     call.results[i].channel = ch /\ call.results[i].attempted

RateLimitRejected(call, ch) ==
  \/ call.thrown /\ call.error = "RateLimited"
  \/ \E i \in 1..Len(call.results) :
        call.results[i].channel = ch /\ call.results[i].error = "RateLimited"

\* C1: on every rate-limited channel the counter and the number of delivery
\* attempts accepted within the channel's current window never exceed the
\* channel's limit, and a send that finds the channel at its limit inside the
\* window gets no delivery attempt on it and is rejected with a rate-limit error.
C1_RateLimitNeverExceeded ==
  /\ \A ch \in RateLimitedChannels :
        /\ rateLimits[ch].count <= Limit(ch)
        /\ attempts[ch] <= Limit(ch)
  /\ lastCall.kind = "send" =>
        \A ch \in lastCall.atLimit :
           /\ ~Attempted(lastCall, ch)
           /\ RateLimitRejected(lastCall, ch)

\* C1 witness: a call was rejected with a rate-limit error on a channel whose
\* counter stands at the limit.
C1_Witness ==
  /\ lastCall.kind = "send"
  /\ lastCall.thrown /\ lastCall.error = "RateLimited"
  /\ lastCall.atLimit # {}
  /\ \E ch \in lastCall.atLimit : rateLimits[ch].count = Limit(ch)

\* C2: when a call addresses several channels and one of them is at its limit,
\* only that channel is skipped: every other configured channel of the call
\* that is not at its limit receives a delivery attempt.
C2_OnlyLimitedChannelSkipped ==
  (lastCall.kind = "send" /\ lastCall.atLimit # {}) =>
     \A ch \in (ChanSet(lastCall.channels) \cap channels) \ lastCall.atLimit :
        Attempted(lastCall, ch)

\* C3: a critical alert with exactly the mail channel and one chat channel
\* configured gives both a delivery attempt unless the channel is at its limit;
\* with the mail channel at its limit and the chat delivery succeeding the call
\* returns a notification of status 'partial'.
C3_CriticalAlertPartial ==
  (/\ lastCall.kind = "send"
   /\ lastCall.via = "sendAlert" /\ lastCall.severity = "critical"
   /\ channels = {"email", "slack"}
   /\ "slack" \notin lastCall.atLimit
   /\ "slack" \notin lastCall.transportFailed) =>
     /\ Attempted(lastCall, "slack")
     /\ "email" \notin lastCall.atLimit => Attempted(lastCall, "email")
     /\ "email" \in lastCall.atLimit =>
           (~lastCall.thrown /\ lastCall.status = "partial")

----------------------------------------------------------------------------
(* Claims about the scheduler (checked under SpecSched) *)

\* C4: whatever the handler and the alert dispatch do, the promise of a cron
\* callback is never rejected, and the process never exits with code 1 through
\* the unhandledRejection handler.
C4_CallbackNeverRejects ==
  /\ rejection = "none"
  /\ processState = "running"

\* C5: the step in which a scheduled handler fails sends an alert of severity
\* "high" titled with the job, and changes no registration: scheduledTasks, the
\* cron jobs and isRunning are as before, so a registered job is still bound to
\* an active trigger.
C5_FailedJobStaysRegistered ==
  [][ \A j \in JobNames :
        (schedRunning'[j] < schedRunning[j] /\ nextId' # nextId) =>
           /\ lastCall'.via = "sendAlert"
           /\ lastCall'.severity = "high"
           /\ lastCall'.title = j
           /\ scheduledTasks' = scheduledTasks
           /\ cronJobs' = cronJobs
           /\ isRunning' = isRunning
           /\ j \in DOMAIN scheduledTasks =>
                 (j \in DOMAIN scheduledTasks' /\ cronJobs'[scheduledTasks'[j]].active) ]_vars

\* C5 witness: the last alert reports a failure of job j, j is still registered
\* with an active trigger, and as many handlers of j are in flight as the bound
\* on running handlers allows, so one of them was started by a firing after
\* the failure.
C5_Witness ==
  /\ lastCall.kind = "send" /\ lastCall.via = "sendAlert"
  /\ lastCall.severity = "high"
  /\ lastCall.title \in DOMAIN scheduledTasks
  /\ cronJobs[scheduledTasks[lastCall.title]].active
  /\ schedRunning[lastCall.title] = MaxRunning

\* C6: at most one handler of a scheduled job is in flight at any time.
C6_NoSelfOverlap ==
  \A j \in JobNames : schedRunning[j] <= 1

\* C7: a manual run and a scheduled run that end up in the same module entry
\* point are never in flight together.
C7_ManualAndScheduledSerialized ==
  \A j \in JobNames, t \in TaskNames :
     JobEntry(j) = TaskEntry(t) => ~(schedRunning[j] > 0 /\ manualRunning[t] > 0)

----------------------------------------------------------------------------
(* Claims about the day files (checked under SpecStore) *)

\* C8: concurrent store operations on the same day file lose no update: the
\* record of every store operation that returned without a file-system error
\* is in the day file of its type exactly once.
C8_NoLostUpdate ==
  \A p \in stored :
     Cardinality({i \in DOMAIN dayFile[p[1]] : dayFile[p[1]][i].id = p[2]}) = 1

----------------------------------------------------------------------------
(* Claims about deploy (checked under SpecDeploy) *)
PreChecksDone == dep.pc \notin {"none", "prechecks"}

BranchDiffers ==
  /\ RequiredBranch(dep.environment) # "null"
  /\ dep.branch # RequiredBranch(dep.environment)

HasWarning(log) == \E i \in DOMAIN log : log[i] = "Warning: Deploying with uncommitted changes"

\* C9: once the pre-checks of a deployment to an environment whose required
\* branch differs from the current branch are over, the deployment has failed
\* with the branch-mismatch error if force is not set, and with force set it
\* has not failed with that error and its build log holds a warning.
C9_ForceOverridesBranchMismatch ==
  (PreChecksDone /\ BranchDiffers) =>
     IF dep.force
     THEN dep.error # "BranchMismatch" /\ HasWarning(dep.buildLog)
     ELSE dep.error = "BranchMismatch"

\* C10: once the pre-checks of a deployment that found uncommitted changes are
\* over, the deployment has failed with the dirty-working-tree error if force
\* is not set, and with force=true passed to deploy it has not failed with
\* that error.
C10_ForceOverridesDirtyTree ==
  (PreChecksDone /\ dep.dirty = "dirty") =>
     IF dep.force
     THEN dep.error # "DirtyWorkingTree"
     ELSE dep.error = "DirtyWorkingTree"

Logged(log, line) == \E i \in DOMAIN log : log[i] = line

PassedPre == Logged(dep.buildLog, "Pre-deployment checks passed")
RanTests == Logged(dep.buildLog, "Running tests...")
PassedTests == Logged(dep.buildLog, "Tests passed")
RanBuild == Logged(dep.buildLog, "Building application...")
PassedBuild == Logged(dep.buildLog, "Build completed successfully")
RanPlatform == Logged(dep.deployLog, "Deploying to platform...")
PassedPlatform == Logged(dep.deployLog, "Platform deployment completed")
RanPost == Logged(dep.deployLog, "Running post-deployment checks...")
PassedPost == Logged(dep.deployLog, "Post-deployment checks completed")

\* C11: the stages of a deployment run in the order pre-checks, tests (unless
\* skipTests), build, platform deploy, post-checks: a stage has started only
\* if every earlier stage completed, status 'success' is reached only after
\* all stages ran, and a deployment in which a stage failed has the terminal
\* status 'failed'.
C11_StagesInOrder ==
  /\ RanTests => PassedPre /\ ~dep.skipTests
  /\ RanBuild => PassedPre /\ (dep.skipTests \/ PassedTests)
  /\ RanPlatform => PassedBuild
  /\ RanPost => PassedPlatform
  /\ dep.status = "success" =>
       PassedPre /\ (dep.skipTests \/ PassedTests) /\ PassedBuild /\ PassedPlatform /\ PassedPost
  /\ dep.error # "null" => dep.status = "failed" /\ dep.pc = "thrown"
  /\ dep.status = "failed" => dep.error # "null"

\* C11 witness: a deployment with tests went through all five stages and succeeded
C11_Witness ==
  /\ dep.status = "success" /\ ~dep.skipTests
  /\ PassedTests /\ PassedPost

\* C12: the step out of the post-deployment checks always ends the deployment
\* with status 'success' and no error, whatever the probe returned; it only
\* appends lines to the deploy log, for a non-2xx answer a warning line.
C12_ProbeBestEffort ==
  [][(dep.pc = "postchecks" /\ dep' # dep) =>
       /\ dep'.status = "success" /\ dep'.error = "null" /\ dep'.pc = "returned"
       /\ dep'.buildLog = dep.buildLog
       /\ Len(dep'.deployLog) >= Len(dep.deployLog) + 2
       /\ SubSeq(dep'.deployLog, 1, Len(dep.deployLog)) = dep.deployLog]_vars

\* C12 witness: the probe got a non-2xx answer and the deployment succeeded
C12_Witness ==
  /\ dep.status = "success"
  /\ Logged(dep.deployLog, "Warning: Deployment returned status")

----------------------------------------------------------------------------
(* Claims about the run records (checked under SpecEngage) *)
Terminal(status) == status \in {"sent", "failed", "success", "completed"}

Occurrences(hist, id) == Cardinality({i \in DOMAIN hist : hist[i].id = id})

\* C13: the status of a record moves only forward: once an engagement
\* notification has a terminal status ('sent' or 'failed') no step changes it,
\* also not a step in which storing the record fails, and no step leaves the
\* record in the history more than once.
C13_TerminalStatusFinal ==
  [][/\ (Terminal(eng.status) /\ eng'.id = eng.id) => eng'.status = eng.status
     /\ \A id \in 1..MaxEngage : Occurrences(engagementHistory', id) <= 1]_vars

----------------------------------------------------------------------------
(* Further claims about NotificationService (checked under SpecNotif) *)

\* C14: every sendNotification call made so far has exactly one record in the
\* notification history, in call order, and the record of the latest call
\* carries the status that call ended with, also when the call threw.
C14_OneRecordPerCall ==
  /\ Len(notificationHistory) = nextId - 1
  /\ \A i \in DOMAIN notificationHistory : notificationHistory[i].id = i
  /\ lastCall.kind = "send" =>
       /\ Occurrences(notificationHistory, lastCall.id) = 1
       /\ notificationHistory[lastCall.id].status = lastCall.status

\* C14 witness: a call that threw to its caller has its one record, status 'failed'
C14_Witness ==
  /\ lastCall.kind = "send" /\ lastCall.thrown
  /\ Occurrences(notificationHistory, lastCall.id) = 1
  /\ notificationHistory[lastCall.id].status = "failed"

----------------------------------------------------------------------------
(* Claims about sendAlert (checked under SpecAlert) *)

\* C15: the channel list sendAlert builds always holds the base channel email;
\* for severity "high" or "critical" the other entries are exactly the
\* configured secondary channels (slack, telegram, discord), each once, and
\* for any other severity there are no other entries.
C15_AlertChannelSelection ==
  alertCall.done =>
    /\ "email" \in ChanSet(alertCall.channels)
    /\ Len(alertCall.channels) = Cardinality(ChanSet(alertCall.channels))
    /\ ChanSet(alertCall.channels) \ {"email"} =
         IF alertCall.severity \in {"high", "critical"}
         THEN alertCall.conf \cap SecondaryChannels
         ELSE {}

\* C15 witness: a critical alert with all three secondary channels configured
\* and the mail channel not configured
C15_Witness ==
  /\ alertCall.done /\ alertCall.severity = "critical"
  /\ alertCall.conf = SecondaryChannels
  /\ Len(alertCall.channels) = 4

----------------------------------------------------------------------------
(* Further claims about the scheduler (checked under SpecSched) *)
LiveTriggers(name) ==
  {c \in DOMAIN cronJobs : cronJobs[c].name = name /\ cronJobs[c].active}

\* C16: whatever scheduleTask and startScheduledTasks calls were made, no job
\* name has two live triggers (a second registration under a registered name
\* is refused and leaves the first one as it was).
C16_OneLiveTriggerPerName ==
  \A name \in JobNames : Cardinality(LiveTriggers(name)) <= 1

\* C17: when shutdown has returned, no cron trigger created by the system is
\* still active (so no new firing starts) and no handler was in flight at the
\* moment it returned.
C17_ShutdownQuiesces ==
  shutdownCall.returned => shutdownCall.inFlight = 0 /\ shutdownCall.live = 0

----------------------------------------------------------------------------
(* Claims about runManualTask (checked under SpecManual) *)

\* C18: a runManualTask call for a task of the catalogue whose handler failed
\* has thrown the error to its caller, and a record of the failed run has
\* been stored.
C18_ManualFailureRecorded ==
  (manualCall.known /\ ~manualCall.ok) =>
     manualCall.thrown /\ manualCall.stored # "none"

----------------------------------------------------------------------------
(* Claims about HealthMonitor *)

HealthRank(status) ==
  CASE status = "healthy" -> 0
    [] status = "warning" -> 1
    [] status = "unhealthy" -> 2
    [] status = "error" -> 3

\* C19: after every aggregation the overall status is the worst of the
\* sub-check statuses under healthy < warning < unhealthy < error: it is the
\* status of some sub-check and no sub-check ranks above it; a sub-check that
\* threw is counted with status 'error' and the aggregation still completed.
C19_OverallIsWorst ==
  healthCall.done =>
    /\ \E n \in CheckNames : healthCall.checks[n] = healthCall.overall
    /\ \A n \in CheckNames :
         HealthRank(healthCall.checks[n]) <= HealthRank(healthCall.overall)
    /\ \A n \in CheckNames :
         healthCall.outcome[n] = "throws" => healthCall.checks[n] = "error"

\* a check threw while another returned 'unhealthy', and the run completed
C19_Witness ==
  /\ healthCall.done
  /\ healthCall.outcome["system"] = "throws"
  /\ healthCall.outcome["database"] = "unhealthy"
  /\ healthCall.overall = "error"

\* C20: a checkHealth run lists a breach among its alerts only if no stored
\* report listed that breach less than alertCooldown before it.
C20_NoRepeatWithinCooldown ==
  [][health'.n = health.n + 1 =>
       \A b \in health'.alerts :
          \/ health.raisedAt[b] = 0
          \/ health.now - health.raisedAt[b] >= AlertCooldown]_vars

\* a second run inside the window found the database still failing and
\* raised nothing
C20_Witness ==
  /\ health.n >= 2
  /\ health.raisedAt["database"] # 0
  /\ health.now > health.raisedAt["database"]
  /\ health.now - health.raisedAt["database"] < AlertCooldown
  /\ health.database = "error"
  /\ health.alerts = {}

----------------------------------------------------------------------------
(* Claims about CleanupService (checked under SpecCleanup) *)

CleanupRan == cleanupCall'.n = cleanupCall.n + 1

FaultFree(call) == call.unreadable = {} /\ call.undeletable = {}

\* the rules of a list that performCleanup processes
ProcessedRules(rules) ==
  {rules[i] : i \in {k \in DOMAIN rules : IsCleanupRule(rules[k])}}

RuleDirectories(name) ==
  {cleanupRules(name).directories[i] : i \in DOMAIN cleanupRules(name).directories}

\* by inspection of the table: c.txt is the one file no pattern of its
\* directory's rule matches
NamedByAPattern == {f \in FileIds : f # 2}

\* the files a run over the rule list has to delete: named by a pattern of a
\* processed rule, in one of its directories, modified before the cutoff
DueForDeletion(rules, present) ==
  {f \in present \cap NamedByAPattern :
     \E name \in ProcessedRules(rules) :
        /\ FileTable[f].dir \in RuleDirectories(name)
        /\ FileTable[f].mtime < CleanupEpoch - cleanupRules(name).retention}

RECURSIVE SumOver(_, _)
SumOver(names, results) ==
  IF names = {} THEN [deleted |-> 0, bytes |-> 0, would |-> 0]
  ELSE LET n == CHOOSE x \in names : TRUE
           rest == SumOver(names \ {n}, results)
       IN [deleted |-> rest.deleted + results[n].filesDeleted,
           bytes |-> rest.bytes + results[n].bytesFreed,
           would |-> rest.would + Cardinality(results[n].would)]

Totals(call) == SumOver(DOMAIN call.results, call.results)

\* C21: a performCleanup call with dryRun = true leaves the set of files in
\* the rule directories as it was, whatever rules it is given and whatever
\* fails during the run.
C21_DryRunDeletesNothing ==
  [][(CleanupRan /\ cleanupCall'.dryRun) => fsFiles' = fsFiles]_vars

\* a dry run over all rules found files due for deletion, and they are still there
C21_Witness ==
  /\ cleanupCall.n >= 1
  /\ cleanupCall.dryRun
  /\ "logs" \in DOMAIN cleanupCall.results
  /\ Cardinality(cleanupCall.results["logs"].would) >= 2
  /\ cleanupCall.results["logs"].would \subseteq fsFiles

\* C22: when a dry run is followed by a run with dryRun = false over the same
\* rule list, with no file created in between and nothing failing in either
\* run, the number of files the dry run announced as 'Would delete' equals
\* the number of files the second run deleted, rule by rule.
C22_DryRunCountMatches ==
  [][(/\ CleanupRan
      /\ cleanupCall.n >= 1
      /\ cleanupCall.dryRun
      /\ ~cleanupCall'.dryRun
      /\ cleanupCall'.rules = cleanupCall.rules
      /\ FaultFree(cleanupCall)
      /\ FaultFree(cleanupCall'))
     => /\ DOMAIN cleanupCall'.results = DOMAIN cleanupCall.results
        /\ \A name \in DOMAIN cleanupCall.results :
             cleanupCall'.results[name].filesDeleted
               = Cardinality(cleanupCall.results[name].would)
        /\ Totals(cleanupCall').deleted = Totals(cleanupCall).would]_vars

\* the second run over all rules deleted files from both directories of the
\* logs rule, which an earlier run had left in place
C22_Witness ==
  /\ cleanupCall.n = 2
  /\ ~cleanupCall.dryRun
  /\ FaultFree(cleanupCall)
  /\ cleanupCall.rules = CleanupRuleNames
  /\ cleanupCall.results["logs"].removed = {1, 3}
  /\ Totals(cleanupCall).deleted >= 3

\* C23: a run with dryRun = false in which nothing fails deletes exactly the
\* files that a pattern of a processed rule names, that lie in a directory of
\* that rule and that were modified before now minus the retention; every
\* other file stays, and the bytesFreed it reports add up to the sizes of the
\* deleted files.
C23_DeletesExactlyExpired ==
  [][(CleanupRan /\ ~cleanupCall'.dryRun /\ FaultFree(cleanupCall'))
     => /\ fsFiles' \subseteq fsFiles
        /\ fsFiles \ fsFiles' = DueForDeletion(cleanupCall'.rules, fsFiles)
        /\ Totals(cleanupCall').bytes = SumSizes(fsFiles \ fsFiles')
        /\ Totals(cleanupCall').deleted = Cardinality(fsFiles \ fsFiles')]_vars

\* a run deleted a.log (31 days old, retention 30) and kept b.log (30 days
\* old) and c.txt (40 days old, no pattern); bytesFreed is a.log's size
C23_Witness ==
  /\ cleanupCall.n >= 1
  /\ ~cleanupCall.dryRun
  /\ FaultFree(cleanupCall)
  /\ cleanupCall.results["logs"].removed = {1}
  /\ cleanupCall.results["logs"].bytesFreed = FileTable[1].size
  /\ {2, 5} \subseteq fsFiles
  /\ 1 \notin fsFiles

\* C24: a performCleanup call ends with status 'completed' whatever fails on
\* one target, and the failure is in an error list of the run: an existing
\* directory of a processed rule that could not be read leaves an entry in
\* cleanup.errors or in the errors of a rule's result.
C24_TargetFailureRecorded ==
  cleanupCall.n >= 1 =>
    /\ cleanupCall.status = "completed"
    /\ (\E d \in cleanupCall.unreadable :
          /\ DirectoryExists(d, fsFiles)
          /\ \E name \in ProcessedRules(cleanupCall.rules) : d \in RuleDirectories(name))
       => \/ cleanupCall.errors # {}
          \/ \E name \in DOMAIN cleanupCall.results : cleanupCall.results[name].errors # {}

----------------------------------------------------------------------------
(* Claims about DatabaseBackup *)

BackupFinished(r) == backupRuns[r].pc \in {"done", "thrown"}

BackupQuiet == \A r \in BackupRunIds : backupRuns[r].pc = "idle" \/ BackupFinished(r)

RECURSIVE SuccessfulSize(_)
SuccessfulSize(rs) ==
  IF rs = {} THEN 0
  ELSE LET r == CHOOSE x \in rs : TRUE
       IN (IF backupRuns[r].pc = "done" THEN backupRuns[r].size ELSE 0)
          + SuccessfulSize(rs \ {r})

\* C25: a performBackup run whose export and archive succeeded ends
\* successful whatever the uploads did, and the backup record it leaves shows
\* a failed upload in the status of that target.
C25_UploadFailureRecorded ==
  \A r \in BackupRunIds :
     (backupRuns[r].pc = "done" /\ lastBackup.name = r) =>
        /\ (~backupRuns[r].s3Ok => lastBackup.cloudStorage["s3"] # "configured")
        /\ (~backupRuns[r].driveOk => lastBackup.cloudStorage["googleDrive"] # "configured")

\* C26: whenever no performBackup run is in flight, totalBackups equals the
\* number of finished runs, successfulBackups the number that returned,
\* failedBackups the number that threw, and totalSize the sum of the archive
\* sizes of the runs that returned.
C26_StatsCountEachRunOnce ==
  BackupQuiet =>
    /\ backupStats.totalBackups = Cardinality({r \in BackupRunIds : BackupFinished(r)})
    /\ backupStats.successfulBackups
         = Cardinality({r \in BackupRunIds : backupRuns[r].pc = "done"})
    /\ backupStats.failedBackups
         = Cardinality({r \in BackupRunIds : backupRuns[r].pc = "thrown"})
    /\ backupStats.totalSize = SuccessfulSize(BackupRunIds)

\* C27: after a dataset was backed up and the archive restored into an empty
\* database with dropExisting = true, the database holds the collections of
\* the source with the same number of documents each.
C27_BackupRestoreRoundTrip ==
  (restoreCall.done /\ restoreCall.dropExisting) =>
     restoreCall.target = restoreCall.source

----------------------------------------------------------------------------
(* Claims about generateReport (checked under SpecReport) *)
\* a call in which nothing but sections failed: the format is supported and
\* the report file could be written
OnlySectionsFailed ==
  /\ reportCall.done
  /\ formatReport(reportCall.format) = "ok"
  /\ reportCall.report.error # "WriteFailed"

\* C28: a section that errors contributes a placeholder instead of aborting
\* the report: whichever sections fail, a report whose format and file write
\* are fine ends with status 'completed' and holds data for every requested
\* section.
C28_SectionErrorIsolated ==
  OnlySectionsFailed =>
     /\ reportCall.report.status = "completed"
     /\ ~reportCall.report.thrown
     /\ \A sec \in SeqSet(reportCall.report.sections) : sec \in DOMAIN reportCall.report.data

----------------------------------------------------------------------------
----------------------------------------------------------------------------
(* Claims about a failing deployment (checked under SpecDeploy) *)
\* C30: the step in which a stage of deploy fails ends the call: the record
\* gets status 'failed' and the error, one record with its id is appended to
\* the deployment history (none was there before), the error is rethrown, and
\* from then on neither the record nor the history changes for this
\* deployment, so no later stage runs.
C30_FailureHaltsAndRecords ==
  [][/\ (dep.pc # "thrown" /\ dep'.pc = "thrown") =>
          /\ dep'.id = dep.id
          /\ dep'.status = "failed" /\ dep'.error # "null"
          /\ Occurrences(deploymentHistory, dep.id) = 0
          /\ deploymentHistory' = Append(deploymentHistory,
                                         [id |-> dep.id, status |-> "failed"])
     /\ (dep.pc = "thrown" /\ dep'.id = dep.id) =>
          /\ dep' = dep
          /\ deploymentHistory' = deploymentHistory]_vars

\* a deployment whose build failed after its tests passed: no platform stage
\* ran and one failed record is in the history
C30_Witness ==
  /\ dep.pc = "thrown" /\ dep.error = "BuildFailed"
  /\ PassedTests /\ RanBuild /\ ~RanPlatform
  /\ Occurrences(deploymentHistory, dep.id) = 1

----------------------------------------------------------------------------
(* Claims about the alerts of checkHealth (checked under SpecHealth) *)
HealthRan == health'.n = health.n + 1

\* a notification went out: NotificationService took a call, attempted a
\* delivery or stored a record
NotificationDispatched ==
  \/ nextId' # nextId
  \/ lastCall' # lastCall
  \/ attempts' # attempts
  \/ notificationHistory' # history'["notification"]

\* C31: a checkHealth run whose report lists at least one alert raises it via
\* NotificationService: the run dispatches a notification.
C31_AlertDispatched ==
  [][(HealthRan /\ health'.alerts # {}) => NotificationDispatched]_vars

----------------------------------------------------------------------------
(* Claims about unknown manual tasks (checked under SpecManual) *)
\* C32: a runManualTask call with a name outside the catalogue throws to its
\* caller and runs nothing: no record is stored and no state of any module
\* changes.
C32_UnknownTaskRunsNothing ==
  [][(manualCall'.n = manualCall.n + 1 /\ manualCall'.task \notin TaskNames) =>
       /\ manualCall'.thrown /\ ~manualCall'.known
       /\ manualCall'.stored = "none"
       /\ coreVars' = coreVars
       /\ besidesManual' = besidesManual]_vars

\* an unknown task was run after a task of the catalogue had stored a record
C32_Witness ==
  /\ manualCall.n >= 2
  /\ manualCall.task = "restore"
  /\ manualCall.thrown
  /\ nextRec > 1

----------------------------------------------------------------------------
(* Claims about the staging directories (checked under SpecNames) *)
Started(r) == stagingDirs[r] # NotStarted

\* C33: no two performBackup runs share a staging directory or an archive
\* path, however close together they start.
C33_FreshStagingDirectory ==
  \A r, q \in BackupRunIds :
     (r # q /\ Started(r) /\ Started(q)) =>
        /\ backupPath(stagingDirs[r]) # backupPath(stagingDirs[q])
        /\ archivePath(stagingDirs[r]) # archivePath(stagingDirs[q])

----------------------------------------------------------------------------
(* Claims about the engagement triggers (checked under SpecTrack) *)
TimesFired(ruleName) ==
  Cardinality({i \in DOMAIN trackCall.fired : trackCall.fired[i] = ruleName})

RuleNames == {EngagementRuleOrder[i] : i \in DOMAIN EngagementRuleOrder}

\* the event data satisfies every condition of the rule
Satisfied(ruleName) ==
  LET conditions == engagementRules(ruleName).conditions
  IN \A key \in DOMAIN conditions :
        key \in DOMAIN trackCall.data /\ trackCall.data[key] = conditions[key]

\* C34: a trackUserActivity call that recorded the event of an existing user
\* fires each rule whose trigger is the event type and whose conditions the
\* data satisfies exactly once, and no other rule.
C34_SatisfiedRulesFireOnce ==
  (trackCall.done /\ trackCall.recorded /\ trackCall.userExists) =>
     \A ruleName \in RuleNames :
        TimesFired(ruleName) =
          IF engagementRules(ruleName).trigger = trackCall.type /\ Satisfied(ruleName)
          THEN 1 ELSE 0

\* the first lesson was completed: firstLesson fired, and alone
C34_Witness ==
  /\ trackCall.done /\ trackCall.recorded /\ trackCall.userExists
  /\ trackCall.type = "lesson_completed"
  /\ "lessonNumber" \in DOMAIN trackCall.data
  /\ trackCall.data["lessonNumber"] = Num(1)
  /\ trackCall.fired = <<"firstLesson">>

----------------------------------------------------------------------------
(* Claims about the health history (checked under SpecWindow) *)
\* the reports loaded and produced so far, oldest first
ReportsSoFar ==
  LET k == Min(healthStore.found, LoadedReportFiles)
  IN [i \in 1..(k + healthStore.runs) |-> i - k]

LastOf(q, n) == SubSeq(q, Len(q) - n + 1, Len(q))

\* C35: the health history never holds more than 100 reports; it holds the
\* latest reports, each once and oldest first, so a full window dropped its
\* oldest entry; and every completed run is persisted once: the directory
\* holds one file more per run.
C35_RollingWindow ==
  healthStore.initialized =>
     /\ Len(healthStore.history) <= HealthHistoryCap
     /\ healthStore.history = LastOf(ReportsSoFar, Min(Len(ReportsSoFar), HealthHistoryCap))
     /\ healthStore.files = healthStore.found + healthStore.runs

----------------------------------------------------------------------------
(* Claims about the length of the deployment history (SpecDeployHistory) *)
\* C36: after initialize and any number of deploy calls the deployment
\* history holds at most 100 entries.
C36_HistoryAtMostCap ==
  depInitialized => Len(deploymentHistory) <= DeploymentHistoryCap

----------------------------------------------------------------------------
(* Claims about stopScheduledTasks (checked under SpecSched) *)
\* C37: the step in which stopScheduledTasks returns leaves no cron trigger
\* of the system active, isRunning false and no task registered, whatever
\* startScheduledTasks and scheduleTask calls came before.
C37_StopLeavesNothingActive ==
  [][(scheduledTasks # <<>> /\ scheduledTasks' = <<>>) =>
       /\ ~isRunning'
       /\ \A c \in DOMAIN cronJobs' : ~cronJobs'[c].active]_vars

----------------------------------------------------------------------------
(* Claims about the rate-limit budget (checked under SpecNotif) *)
SendReturned == nextId' = nextId + 1

SameWindow(ch) == rateLimits'[ch].resetTime = rateLimits[ch].resetTime

\* C38: a sendNotification call raises the counter of a channel by one for
\* each delivery attempt it makes on that channel (within one window).
C38_OneUnitPerAttempt ==
  [][SendReturned =>
       \A ch \in RateLimitedChannels :
          SameWindow(ch) =>
             rateLimits'[ch].count - rateLimits[ch].count = attempts'[ch] - attempts[ch]]_vars

\* C39: a sendNotification call rejected by the rate limit leaves the counter
\* of every channel of its channel list as it was (within one window).
C39_RejectedCallConsumesNothing ==
  [][(SendReturned /\ lastCall'.thrown /\ lastCall'.error = "RateLimited") =>
       \A ch \in ChanSet(lastCall'.channels) \cap RateLimitedChannels :
          SameWindow(ch) => rateLimits'[ch].count = rateLimits[ch].count]_vars

----------------------------------------------------------------------------
(* Claim about the end of the alert cooldown (checked under SpecHealth) *)
InCooldown == health.lastAlert # 0 /\ health.now - health.lastAlert < AlertCooldown

\* C40: only a checkHealth run that raised an alert moves lastAlert (to the
\* time of that run); a run inside the cooldown raises nothing, whatever
\* breach it found; a run at or after lastAlert + alertCooldown that finds
\* the database check failed raises the database alert again.
C40_CooldownEnds ==
  [][HealthRan =>
       /\ (health'.lastAlert # health.lastAlert =>
             health'.alerts # {} /\ health'.lastAlert = health.now)
       /\ (InCooldown =>
             health'.alerts = {} /\ health'.lastAlert = health.lastAlert)
       /\ (~InCooldown /\ health'.database = "error" =>
             "database" \in health'.alerts /\ health'.lastAlert = health.now)]_vars

\* a second run exactly alertCooldown after the run that raised the cpu
\* alert has raised the database alert
C40_Witness ==
  /\ health.n >= 2
  /\ "database" \in health.alerts
  /\ health.lastAlert = health.now
  /\ health.raisedAt["cpu"] # 0
  /\ health.now - health.raisedAt["cpu"] = AlertCooldown

TypeOK ==
  /\ \A ch \in RateLimitedChannels : rateLimits[ch].count \in 0..Limit(ch)
=============================================================================
